---------------------------- MODULE Spec2Model ----------------------------
(***************************************************************************)
(* Model of the query-safety pipeline of sqlanywhere_mcp: the raw query    *)
(* path (queries.execute_query), the structured path                       *)
(* (queries.query_builder), the connection manager (db.ConnectionManager)  *)
(* and the driver round trip (execute_query_with_metadata).                *)
(*                                                                         *)
(* Python strings are sequences of one-character strings, so that strip,   *)
(* upper, startswith, split and the regular expressions are computed on    *)
(* characters as the code computes them.  Optional[...] values are         *)
(* sequences of length 0 (None) or 1.                                      *)
(***************************************************************************)
EXTENDS Integers, Sequences, FiniteSets, TLC

(***************************************************************************)
(* Bounds of the model.                                                    *)
(***************************************************************************)
\* the longest raw query is a concatenation of MaxParts fragments
MaxParts == 3
\* the configured row limits (default and ceiling) range over 0..MaxCfg
MaxCfg == 2
\* the driver's result set holds 0..MaxRows rows
MaxRows == 3

(***************************************************************************)
(* Characters.                                                             *)
(***************************************************************************)
LowerLetters ==
    << "a","b","c","d","e","f","g","h","i","j","k","l","m",
       "n","o","p","q","r","s","t","u","v","w","x","y","z" >>

UpperLetters ==
    << "A","B","C","D","E","F","G","H","I","J","K","L","M",
       "N","O","P","Q","R","S","T","U","V","W","X","Y","Z" >>

LowerSet == { LowerLetters[i] : i \in 1..26 }

UpperSet == { UpperLetters[i] : i \in 1..26 }

DigitSet == { "0","1","2","3","4","5","6","7","8","9" }

\* str.strip() and the regex class \s
SpaceSet == { " ", "\t", "\n", "\r" }

\* U+0345 COMBINING GREEK YPOGEGRAMMENI: a combining mark, not a word
\* character, whose upper case is the letter U+0399
Ypogegrammeni == "U+0345"

\* U+0399 GREEK CAPITAL LETTER IOTA and U+03B9 GREEK SMALL LETTER IOTA
CapitalIota == "U+0399"

SmallIota == "U+03B9"

\* U+212A KELVIN SIGN: an upper-case letter whose lower case is "k"; under
\* re.IGNORECASE the classes [a-z] and [A-Z] match it
KelvinSign == "U+212A"

\* the regex class \w (str patterns: Unicode letters and digits, and _)
WordSet == LowerSet \cup UpperSet \cup DigitSet \cup { "_", CapitalIota, SmallIota, KelvinSign }

\* [a-zA-Z_]
IdentStartSet == LowerSet \cup UpperSet \cup { "_" }

\* [a-zA-Z0-9_]
IdentCharSet == LowerSet \cup UpperSet \cup DigitSet \cup { "_" }

\* [a-zA-Z_] and [a-zA-Z0-9_] under re.IGNORECASE
IdentStartSetIgnoreCase == IdentStartSet \cup { KelvinSign }

IdentCharSetIgnoreCase == IdentCharSet \cup { KelvinSign }

ToUpper == [ c \in LowerSet |-> UpperLetters[CHOOSE i \in 1..26 : LowerLetters[i] = c] ]

UpperChar(c) ==
    IF c \in LowerSet THEN ToUpper[c]
    ELSE IF c \in { SmallIota, Ypogegrammeni } THEN CapitalIota
    ELSE c

ToLower == [ c \in UpperSet |-> LowerLetters[CHOOSE i \in 1..26 : UpperLetters[i] = c] ]

LowerChar(c) ==
    IF c \in UpperSet THEN ToLower[c]
    ELSE IF c = CapitalIota THEN SmallIota
    ELSE IF c = KelvinSign THEN "k"
    ELSE c

\* str.lower()
lower(s) == [ i \in 1..Len(s) |-> LowerChar(s[i]) ]

\* str.upper()
upper(s) == [ i \in 1..Len(s) |-> UpperChar(s[i]) ]

\* str.strip()
strip(s) ==
    LET keep == { i \in 1..Len(s) : s[i] \notin SpaceSet }
    IN  IF keep = {} THEN << >>
        ELSE LET lo == CHOOSE i \in keep : \A j \in keep : i <= j
                 hi == CHOOSE i \in keep : \A j \in keep : j <= i
             IN  SubSeq(s, lo, hi)

\* str.startswith(prefix)
startswith(s, prefix) ==
    /\ Len(s) >= Len(prefix)
    /\ SubSeq(s, 1, Len(prefix)) = prefix

\* the substring `lit` occurs in s at position i, compared under re.IGNORECASE
LitAt(s, lit, i) ==
    /\ i >= 1
    /\ i + Len(lit) - 1 <= Len(s)
    /\ \A k \in 1..Len(lit) : LowerChar(s[i + k - 1]) = LowerChar(lit[k])

\* the regex assertion \b between positions i-1 and i of s
WordBoundary(s, i) ==
    LET before == i >= 2 /\ i - 1 <= Len(s) /\ s[i - 1] \in WordSet
        after  == i >= 1 /\ i <= Len(s) /\ s[i] \in WordSet
    IN  before # after

\* re.search(r"\b<kw>\b", s, re.IGNORECASE)
search_word(kw, s) ==
    \E i \in 1..Len(s) :
        /\ LitAt(s, kw, i)
        /\ WordBoundary(s, i)
        /\ WordBoundary(s, i + Len(kw))

\* re.search(<literal>, s)
search_lit(lit, s) ==
    \E i \in 1..Len(s) :
        /\ i + Len(lit) - 1 <= Len(s)
        /\ SubSeq(s, i, i + Len(lit) - 1) = lit


RECURSIVE split(_, _)
\* str.split(sep) for a one-character separator
split(s, sep) ==
    IF \A i \in 1..Len(s) : s[i] # sep THEN << s >>
    ELSE LET i == CHOOSE k \in 1..Len(s) :
                      s[k] = sep /\ \A j \in 1..(k - 1) : s[j] # sep
         IN  << SubSeq(s, 1, i - 1) >> \o split(SubSeq(s, i + 1, Len(s)), sep)

RECURSIVE join(_, _)
\* sep.join(parts)
join(parts, sep) ==
    IF Len(parts) = 0 THEN << >>
    ELSE IF Len(parts) = 1 THEN parts[1]
    ELSE parts[1] \o sep \o join(Tail(parts), sep)

RECURSIVE NatToStr(_)
\* str(n) for n >= 0
NatToStr(n) ==
    LET d == << "0","1","2","3","4","5","6","7","8","9" >>
    IN  IF n < 10 THEN << d[n + 1] >>
        ELSE NatToStr(n \div 10) \o << d[(n % 10) + 1] >>

\* str(n) for an int
IntToStr(n) == IF n < 0 THEN << "-" >> \o NatToStr(0 - n) ELSE NatToStr(n)

\* the elements of a list, in order, that satisfy a test
SelectNonEmpty(parts) == SelectSeq(parts, LAMBDA u : Len(u) > 0)

(***************************************************************************)
(* Optional values and outcomes.                                           *)
(***************************************************************************)
None == << >>

Some(x) == << x >>

\* the value a handler returns or the exception it raises
Outcome(kind, reason, named, rows, has_more) ==
    [ kind |-> kind, reason |-> reason, named |-> named,
      rows |-> rows, row_count |-> Len(rows), has_more |-> has_more ]

NoOutcome == Outcome("none", "", << >>, << >>, FALSE)

\* errors.DatabaseError(operation, original_error): the operation name and
\* str(original_error), from which the message is formatted
DatabaseError(operation, original_error) ==
    Outcome("DatabaseError", operation, original_error, << >>, FALSE)

(***************************************************************************)
(* db.ConnectionManager                                                    *)
(***************************************************************************)
\* the default of SQLANYWHERE_AUTHORIZED_USERS
DefaultAuthorizedUsers == << "m","o","n","i","t","o","r",",","E","x","t","e","n","s","i","o","n","s","U","s","e","r" >>

\* ConnectionManager._parse_authorized_users
parse_authorized_users(e) ==
    LET users_str == IF e.authorized_users = None THEN DefaultAuthorizedUsers
                     ELSE e.authorized_users[1]
        parts == split(users_str, ",")
        stripped == [ i \in 1..Len(parts) |-> strip(parts[i]) ]
    IN  SelectNonEmpty(stripped)

\* <setting>.lower() in ("true", "yes", "1")
is_true_setting(v) ==
    lower(v) \in { << "t","r","u","e" >>, << "y","e","s" >>, << "1" >> }

\* _build_connection_string requiring the database name before it looks at
\* the full connection string
build_connection_string_database_first(e) ==
    IF Len(e.database) = 0
    THEN [ raised |-> TRUE, value |-> << >>, warned |-> FALSE ]
    ELSE IF e.connection_string # None /\ Len(e.connection_string[1]) > 0
    THEN [ raised |-> FALSE, value |-> e.connection_string[1], warned |-> FALSE ]
    ELSE [ raised |-> FALSE, value |-> << "D","B","N","=" >> \o e.database,
           warned |-> Len(e.server_name) = 0 ]

\* ConnectionManager._build_connection_string: the string, or the ValueError
\* raised when neither a connection string nor a database name is configured
build_connection_string(e) ==
    IF e.connection_string # None /\ Len(e.connection_string[1]) > 0
    THEN [ raised |-> FALSE, value |-> e.connection_string[1], warned |-> FALSE ]
    ELSE IF Len(e.database) = 0
    THEN [ raised |-> TRUE, value |-> << >>, warned |-> FALSE ]
    ELSE LET parts ==
                 << << "D","R","I","V","E","R","=","{" >> \o e.driver \o << "}" >>,
                    << "D","B","N","=" >> \o e.database >>
                 \o (IF Len(e.user) > 0 THEN << << "U","I","D","=" >> \o e.user >> ELSE << >>)
                 \o (IF Len(e.password) > 0 THEN << << "P","W","D","=" >> \o e.password >> ELSE << >>)
                 \o (IF Len(e.server_name) > 0
                     THEN << << "S","e","r","v","e","r","N","a","m","e","=" >> \o e.server_name >> ELSE << >>)
                 \o (IF is_true_setting(e.use_tcp) /\ e.host # None /\ Len(e.host[1]) > 0
                     THEN << << "H","o","s","t","=" >> \o e.host[1] \o << ":" >> \o e.port >>
                     ELSE << >>)
                 \o (IF is_true_setting(e.encrypt) THEN << << "E","N","C","R","Y","P","T","=","Y","E","S" >> >> ELSE << >>)
         IN  [ raised |-> FALSE, value |-> join(parts, << ";" >>),
               warned |-> Len(e.server_name) = 0 ]

\* ConnectionManager.__init__: the manager's fields, or the error of construction
ConnectionManager(e) ==
    LET cs == build_connection_string(e)
    IN  IF cs.raised THEN [ raised |-> TRUE, cm |-> None ]
        ELSE [ raised |-> FALSE,
               cm |-> Some([ connection_string |-> cs.value,
                             max_rows |-> e.max_rows,
                             max_rows_limit |-> e.max_rows_limit,
                             authorized_users |-> parse_authorized_users(e) ]) ]

\* db.get_connection_manager: the process-wide manager, built on first use
get_connection_manager(cm0, e) ==
    IF cm0 = None THEN ConnectionManager(e)
    ELSE [ raised |-> FALSE, cm |-> cm0 ]

(***************************************************************************)
(* The driver round trip.  conn is the manager's _connection: "none" or    *)
(* "open".  drv is what the driver and the server do during one call:      *)
(* whether pyodbc.connect succeeds, whether the liveness probe succeeds,   *)
(* whether cursor.execute succeeds, and how many rows the statement has.   *)
(***************************************************************************)
\* the statement of ConnectionManager.is_connected
ProbeStatement == << "S","E","L","E","C","T"," ","1" >>

\* str(e) of the ConnectionError that ConnectionManager.connect raises when
\* pyodbc.connect fails with error e
connect_failed_message(connection_string, e) ==
    << "F","a","i","l","e","d"," ","t","o"," ","c","o","n","n","e","c","t"," ","t","o"," ","S","Q","L"," ","A","n","y","w","h","e","r","e"," ","d","a","t","a","b","a","s","e",":"," " >>
    \o e \o << "\n","C","o","n","n","e","c","t","i","o","n"," ","s","t","r","i","n","g",":"," " >> \o connection_string
    \o << "\n","P","l","e","a","s","e"," ","v","e","r","i","f","y",":","\n","1","."," ","S","Q","L"," ","A","n","y","w","h","e","r","e"," ","O","D","B","C"," ","d","r","i","v","e","r"," ","i","s"," ","i","n","s","t","a","l","l","e","d","\n","2","."," ","D","a","t","a","b","a","s","e"," ","s","e","r","v","e","r"," ","i","s"," ","r","u","n","n","i","n","g","\n","3","."," ","C","o","n","n","e","c","t","i","o","n"," ","p","a","r","a","m","e","t","e","r","s"," ","a","r","e"," ","c","o","r","r","e","c","t" >>

\* ConnectionManager.connect: the held connection, or a new one from
\* pyodbc.connect, which the manager keeps only when the driver gave one
connect(connection_string, conn0, drv) ==
    IF conn0 = "open"
    THEN [ raised |-> FALSE, conn |-> "open", msg |-> << >>, events |-> << >> ]
    ELSE IF drv.connectOk
    THEN [ raised |-> FALSE, conn |-> "open", msg |-> << >>, events |-> << "connect" >> ]
    ELSE [ raised |-> TRUE, conn |-> "none",
           msg |-> connect_failed_message(connection_string, drv.error),
           events |-> << "connect failed" >> ]

\* disconnect forgetting the held connection without closing it
disconnect_without_close(conn0) ==
    [ conn |-> "none", events |-> << >> ]

\* ConnectionManager.disconnect: closes and forgets the held connection
disconnect(conn0) ==
    IF conn0 = "open" THEN [ conn |-> "none", events |-> << "close" >> ]
    ELSE [ conn |-> "none", events |-> << >> ]

\* ConnectionManager.reconnect: disconnect, then connect
reconnect(connection_string, conn0, drv) ==
    LET d == disconnect(conn0)
        c == connect(connection_string, d.conn, drv)
    IN  [ c EXCEPT !.events = d.events \o c.events ]

\* get_connection sending the liveness probe also when no connection is held
get_connection_always_probing(connection_string, conn0, drv) ==
    LET connected == conn0 = "open" /\ drv.probeOk
        log       == << ProbeStatement >>
        r         == reconnect(connection_string, conn0, drv)
    IN  IF connected
        THEN [ raised |-> FALSE, conn |-> "open", log |-> log, msg |-> << >>,
               events |-> << >> ]
        ELSE [ raised |-> r.raised, conn |-> r.conn, log |-> log, msg |-> r.msg,
               events |-> r.events ]

\* ConnectionManager.get_connection: is_connected, then reconnect if it failed
get_connection(connection_string, conn0, drv) ==
    LET probed    == conn0 = "open"
        connected == probed /\ drv.probeOk
        log       == IF probed THEN << ProbeStatement >> ELSE << >>
        r         == reconnect(connection_string, conn0, drv)
    IN  IF connected
        THEN [ raised |-> FALSE, conn |-> "open", log |-> log, msg |-> << >>,
               events |-> << >> ]
        ELSE [ raised |-> r.raised, conn |-> r.conn, log |-> log, msg |-> r.msg,
               events |-> r.events ]

RECURSIVE ParseNat(_)
\* the number a string of digits denotes
ParseNat(digits) ==
    IF Len(digits) = 0 THEN 0
    ELSE ParseNat(SubSeq(digits, 1, Len(digits) - 1)) * 10
         + (CHOOSE v \in 0..9 : NatToStr(v) = << digits[Len(digits)] >>)

\* the row count after SELECT TOP in a statement, or None: the digits between
\* 'SELECT TOP ' and the next space.  The source does not tell what the server
\* does with a TOP that is not a natural number; the statement then runs
\* without a cap
top_of(query) ==
    LET prefix == << "S","E","L","E","C","T"," ","T","O","P"," " >>
        ends   == { j \in (Len(prefix) + 1)..Len(query) : query[j] = " " }
    IN  IF ~startswith(query, prefix) \/ ends = {} THEN None
        ELSE LET j      == CHOOSE x \in ends : \A y \in ends : x <= y
                 digits == SubSeq(query, Len(prefix) + 1, j - 1)
             IN  IF Len(digits) > 0 /\ \A i \in 1..Len(digits) : digits[i] \in DigitSet
                 THEN Some(ParseNat(digits)) ELSE None

\* the server returning every matching row, whatever TOP says
result_set_ignoring_top(query, avail) == avail

\* the number of rows in the result set of a statement run on a table with
\* avail matching rows: SELECT TOP n gives at most n of them
result_set(query, avail) ==
    IF top_of(query) # None /\ top_of(query)[1] < avail THEN top_of(query)[1] ELSE avail

\* the rows 1..n of the result set, in the driver's order
RowsUpTo(n) == [ i \in 1..n |-> i ]

\* pyodbc cursor.fetchmany(size) on a result set of avail rows
fetchmany(size, avail) ==
    IF size = -1 THEN RowsUpTo(avail)
    ELSE IF size <= 0 THEN << >>
    ELSE RowsUpTo(IF size < avail THEN size ELSE avail)

\* the list slice rows[:m]
SliceTo(rows, m) ==
    LET n == Len(rows)
        k == IF m >= 0 THEN (IF m < n THEN m ELSE n)
             ELSE (IF n + m > 0 THEN n + m ELSE 0)
    IN  SubSeq(rows, 1, k)

\* fetch_rows asking the cursor for max_rows rows, without the extra row
fetch_rows_without_probe(max_rows, avail) ==
    IF max_rows # 0
    THEN LET got      == fetchmany(max_rows, avail)
             has_more == Len(got) > max_rows
         IN  [ size |-> max_rows, fetched |-> Len(got),
               rows |-> IF has_more THEN SliceTo(got, max_rows) ELSE got,
               has_more |-> has_more ]
    ELSE [ size |-> -1, fetched |-> avail, rows |-> RowsUpTo(avail), has_more |-> FALSE ]

\* the fetch of execute_query_with_metadata: what is asked of the cursor
\* (size -1 stands for fetchall), the rows kept and has_more
fetch_rows(max_rows, avail) ==
    IF max_rows # 0
    THEN LET got      == fetchmany(max_rows + 1, avail)
             has_more == Len(got) > max_rows
         IN  [ size |-> max_rows + 1, fetched |-> Len(got),
               rows |-> IF has_more THEN SliceTo(got, max_rows) ELSE got,
               has_more |-> has_more ]
    ELSE [ size |-> -1, fetched |-> avail, rows |-> RowsUpTo(avail), has_more |-> FALSE ]

\* execute_query_with_metadata submitting the query a second time when the
\* driver fails
execute_query_with_metadata_retrying(connection_string, conn0, query, max_rows, drv) ==
    LET gc == get_connection(connection_string, conn0, drv)
    IN  IF gc.raised
        THEN [ raised |-> TRUE, err |-> gc.msg, conn |-> gc.conn, log |-> gc.log,
               events |-> gc.events, size |-> 0, fetched |-> 0, rows |-> << >>, has_more |-> FALSE ]
        ELSE IF ~drv.execOk
        THEN [ raised |-> TRUE, err |-> drv.error, conn |-> gc.conn, events |-> gc.events,
               log |-> gc.log \o << query, query >>,
               size |-> 0, fetched |-> 0, rows |-> << >>, has_more |-> FALSE ]
        ELSE LET f == fetch_rows(max_rows, result_set(query, drv.avail))
             IN  [ raised |-> FALSE, err |-> << >>, conn |-> gc.conn, events |-> gc.events,
                   log |-> gc.log \o << query >>,
                   size |-> f.size, fetched |-> f.fetched,
                   rows |-> f.rows, has_more |-> f.has_more ]

\* ConnectionManager.execute_query_with_metadata(query, max_rows=max_rows)
execute_query_with_metadata(connection_string, conn0, query, max_rows, drv) ==
    LET gc == get_connection(connection_string, conn0, drv)
    IN  IF gc.raised
        THEN [ raised |-> TRUE, err |-> gc.msg, conn |-> gc.conn, log |-> gc.log,
               events |-> gc.events, size |-> 0, fetched |-> 0, rows |-> << >>, has_more |-> FALSE ]
        ELSE IF ~drv.execOk
        THEN [ raised |-> TRUE, err |-> drv.error, conn |-> gc.conn, events |-> gc.events,
               log |-> gc.log \o << query >>,
               size |-> 0, fetched |-> 0, rows |-> << >>, has_more |-> FALSE ]
        ELSE LET f == fetch_rows(max_rows, result_set(query, drv.avail))
             IN  [ raised |-> FALSE, err |-> << >>, conn |-> gc.conn, events |-> gc.events,
                   log |-> gc.log \o << query >>,
                   size |-> f.size, fetched |-> f.fetched,
                   rows |-> f.rows, has_more |-> f.has_more ]

(***************************************************************************)
(* queries.execute_query                                                   *)
(***************************************************************************)
\* the literal that cleaned_query must start with
SelectToken == << "S","E","L","E","C","T" >>

\* dangerous_patterns, in list order (each is \b<word>\b)
dangerous_patterns ==
    << << "D","R","O","P" >>,
       << "D","E","L","E","T","E" >>,
       << "I","N","S","E","R","T" >>,
       << "U","P","D","A","T","E" >>,
       << "C","R","E","A","T","E" >>,
       << "A","L","T","E","R" >>,
       << "T","R","U","N","C","A","T","E" >>,
       << "G","R","A","N","T" >>,
       << "R","E","V","O","K","E" >>,
       << "E","X","E","C" >>,
       << "E","X","E","C","U","T","E" >> >>

\* the patterns that match cleaned_query, by their index in the list
matching_patterns(cleaned_query) ==
    { k \in 1..Len(dangerous_patterns) : search_word(dangerous_patterns[k], cleaned_query) }

\* clean without the upper-casing
clean_without_upper(query) == strip(query)

\* cleaned_query = query.strip().upper()
clean(query) == upper(strip(query))

\* what a call leaves behind: the outcome, the manager singleton, the
\* connection, the statements sent to the driver, the max_rows handed to the
\* fetch, the fetch size asked of the cursor, and the connections opened and
\* closed (none unless the call goes through the manager's connection methods)
Effect(out, cm1, conn1, log, max_rows, size, fetched) ==
    [ out |-> out, cm |-> cm1, conn |-> conn1, log |-> log,
      max_rows |-> max_rows, size |-> size, fetched |-> fetched, events |-> << >> ]

\* resolve_limit clamping a limit over the ceiling instead of rejecting it
resolve_limit_clamped(limit, cmr) ==
    IF limit = None THEN [ raised |-> FALSE, value |-> cmr.max_rows ]
    ELSE IF limit[1] > cmr.max_rows_limit
    THEN [ raised |-> FALSE, value |-> cmr.max_rows_limit ]
    ELSE [ raised |-> FALSE, value |-> limit[1] ]

\* the limit resolution of execute_query: the max_rows to use, or the rejection
resolve_limit(limit, cmr) ==
    IF limit = None THEN [ raised |-> FALSE, value |-> cmr.max_rows ]
    ELSE IF limit[1] > cmr.max_rows_limit THEN [ raised |-> TRUE, value |-> limit[1] ]
    ELSE [ raised |-> FALSE, value |-> limit[1] ]

\* run_query with the round trip made before the limit rejection is raised
run_query_before_limit_check(cm1, conn0, query, r, drv) ==
    LET x == execute_query_with_metadata(cm1[1].connection_string, conn0, query, r.value, drv)
        y == IF r.raised
             THEN Effect(Outcome("InvalidParameterError", "limit", << >>, << >>, FALSE),
                         cm1, x.conn, x.log, None, None, 0)
             ELSE IF x.raised
             THEN Effect(DatabaseError("query execution", x.err),
                         cm1, x.conn, x.log, Some(r.value), None, 0)
             ELSE Effect(Outcome("ok", "", << >>, x.rows, x.has_more),
                         cm1, x.conn, x.log, Some(r.value), Some(x.size), x.fetched)
    IN  [ y EXCEPT !.events = x.events ]

\* the end of execute_query, given the limit resolution r: the rejection of
\* the limit, or the round trip and its result or DatabaseError
run_query(cm1, conn0, query, r, drv) ==
    IF r.raised
    THEN Effect(Outcome("InvalidParameterError", "limit", << >>, << >>, FALSE),
                cm1, conn0, << >>, None, None, 0)
    ELSE LET x == execute_query_with_metadata(cm1[1].connection_string, conn0, query, r.value, drv)
             y == IF x.raised
                  THEN Effect(DatabaseError("query execution", x.err),
                              cm1, x.conn, x.log, Some(r.value), None, 0)
                  ELSE Effect(Outcome("ok", "", << >>, x.rows, x.has_more),
                              cm1, x.conn, x.log, Some(r.value), Some(x.size), x.fetched)
         IN  [ y EXCEPT !.events = x.events ]

\* the SELECT-only check of execute_query
is_select(query) == startswith(clean(query), SelectToken)

\* execute_query checking the row limit before it classifies the query
execute_query_limit_first(cm0, conn0, e, query, limit, drv) ==
    LET g == get_connection_manager(cm0, e)
    IN  IF g.raised
        THEN Effect(Outcome("ValueError", "NO_DATABASE", << >>, << >>, FALSE),
                    cm0, conn0, << >>, None, None, 0)
        ELSE IF resolve_limit(limit, g.cm[1]).raised
        THEN Effect(Outcome("InvalidParameterError", "limit", << >>, << >>, FALSE),
                    g.cm, conn0, << >>, None, None, 0)
        ELSE IF ~is_select(query)
        THEN Effect(Outcome("QueryValidationError", "NOT_A_SELECT", << >>, << >>, FALSE),
                    g.cm, conn0, << >>, None, None, 0)
        ELSE LET hits == matching_patterns(clean(query))
        IN  IF hits # {}
            THEN LET first == CHOOSE k \in hits : \A j \in hits : k <= j
                 IN  Effect(Outcome("QueryValidationError", "DANGEROUS_KEYWORD",
                                    dangerous_patterns[first], << >>, FALSE),
                            g.cm, conn0, << >>, None, None, 0)
            ELSE run_query(g.cm, conn0, query, resolve_limit(limit, g.cm[1]), drv)

\* execute_query(query, limit) called with manager cm0 and connection conn0
execute_query(cm0, conn0, e, query, limit, drv) ==
    IF ~is_select(query)
    THEN Effect(Outcome("QueryValidationError", "NOT_A_SELECT", << >>, << >>, FALSE),
                cm0, conn0, << >>, None, None, 0)
    ELSE LET hits == matching_patterns(clean(query))
    IN  IF hits # {}
        THEN LET first == CHOOSE k \in hits : \A j \in hits : k <= j
             IN  Effect(Outcome("QueryValidationError", "DANGEROUS_KEYWORD",
                                dangerous_patterns[first], << >>, FALSE),
                        cm0, conn0, << >>, None, None, 0)
        ELSE LET g == get_connection_manager(cm0, e)
        IN  IF g.raised
            THEN Effect(Outcome("ValueError", "NO_DATABASE", << >>, << >>, FALSE),
                        cm0, conn0, << >>, None, None, 0)
            ELSE run_query(g.cm, conn0, query, resolve_limit(limit, g.cm[1]), drv)

(***************************************************************************)
(* queries.query_builder                                                   *)
(***************************************************************************)
\* the regex [a-zA-Z_][a-zA-Z0-9_]* matched against all of s
IsIdent(s) ==
    /\ Len(s) >= 1
    /\ s[1] \in IdentStartSet
    /\ \A i \in 2..Len(s) : s[i] \in IdentCharSet

\* a final $ also matches just before a newline that ends the string
DropFinalNewline(s) ==
    IF Len(s) >= 1 /\ s[Len(s)] = "\n" THEN SubSeq(s, 1, Len(s) - 1) ELSE s

\* [a-zA-Z_][a-zA-Z0-9_]*(\.[a-zA-Z_][a-zA-Z0-9_]*)? matched against all of s
IsTableRef(s) ==
    \/ IsIdent(s)
    \/ \E i \in 1..Len(s) :
           /\ s[i] = "."
           /\ IsIdent(SubSeq(s, 1, i - 1))
           /\ IsIdent(SubSeq(s, i + 1, Len(s)))

\* re.match(r"^[a-zA-Z_][a-zA-Z0-9_]*(\.[a-zA-Z_][a-zA-Z0-9_]*)?$", table_name)
match_table_name(table_name) ==
    IsTableRef(table_name) \/ IsTableRef(DropFinalNewline(table_name))

\* re.match(r"^[a-zA-Z_][a-zA-Z0-9_]*$", col)
match_column(col) == IsIdent(col) \/ IsIdent(DropFinalNewline(col))

\* col_list = [c.strip() for c in columns.split(",")]
col_list(columns) ==
    LET parts == split(columns, ",")
    IN  [ i \in 1..Len(parts) |-> strip(parts[i]) ]

\* the indexes of the columns that fail the identifier pattern
bad_columns(columns) ==
    IF columns = << "*" >> THEN {}
    ELSE { i \in 1..Len(col_list(columns)) : ~match_column(col_list(columns)[i]) }

\* where_is_denied without the closing comment marker
where_is_denied_without_close(where) ==
    \/ search_lit(<< ";" >>, where)
    \/ search_lit(<< "-","-" >>, where)
    \/ search_lit(<< "/","*" >>, where)

\* re.search(r";|--|/\*|\*/", where)
where_is_denied(where) ==
    \/ search_lit(<< ";" >>, where)
    \/ search_lit(<< "-","-" >>, where)
    \/ search_lit(<< "/","*" >>, where)
    \/ search_lit(<< "*","/" >>, where)

\* positions reached from a position of P by one identifier
IdentEnds(s, P) ==
    { j \in 2..(Len(s) + 1) :
        \E i \in P : /\ i < j
                     /\ s[i] \in IdentStartSetIgnoreCase
                     /\ \A k \in (i + 1)..(j - 1) : s[k] \in IdentCharSetIgnoreCase }

\* positions reached from a position of P by \s+
SpacesPlus(s, P) ==
    { j \in 2..(Len(s) + 1) :
        \E i \in P : i < j /\ \A k \in i..(j - 1) : s[k] \in SpaceSet }

\* positions reached from a position of P by (ASC|DESC) under re.IGNORECASE
DirEnds(s, P) ==
    { i + 3 : i \in { p \in P : LitAt(s, << "A","S","C" >>, p) } }
    \cup { i + 4 : i \in { p \in P : LitAt(s, << "D","E","S","C" >>, p) } }

\* positions reached by [a-zA-Z_][a-zA-Z0-9_]*(\s+(ASC|DESC))?
OrderItemEnds(s, P) ==
    LET I == IdentEnds(s, P)
    IN  I \cup DirEnds(s, SpacesPlus(s, I))

\* positions reached by ,\s*
CommaEnds(s, P) ==
    LET C == { i + 1 : i \in { p \in P : p <= Len(s) /\ s[p] = "," } }
    IN  C \cup SpacesPlus(s, C)

RECURSIVE OrderListEnds(_, _, _)
\* positions reached by item(,\s*item)*, iterated at most n more times
OrderListEnds(s, R, n) ==
    LET R2 == R \cup OrderItemEnds(s, CommaEnds(s, R))
    IN  IF n = 0 \/ R2 = R THEN R ELSE OrderListEnds(s, R2, n - 1)

\* re.match(<the ORDER BY pattern>, order_by, re.IGNORECASE)
match_order_by(order_by) ==
    LET R == OrderListEnds(order_by, OrderItemEnds(order_by, {1}), Len(order_by))
        n == Len(order_by)
    IN  \/ (n + 1) \in R
        \/ n >= 1 /\ order_by[n] = "\n" /\ n \in R

\* the fixed ceiling of query_builder's own limit check
BuilderLimitMax == 10000

\* the SQL text query_builder assembles from validated parts
build_sql(table_name, columns, where, order_by, limit) ==
    (IF limit # None /\ limit[1] # 0
     THEN << "S","E","L","E","C","T"," ","T","O","P"," " >> \o IntToStr(limit[1]) \o << " " >>
     ELSE << "S","E","L","E","C","T"," " >>)
    \o columns \o << " ","F","R","O","M"," " >> \o table_name
    \o (IF where # None /\ Len(where[1]) > 0
        THEN << " ","W","H","E","R","E"," " >> \o where[1] ELSE << >>)
    \o (IF order_by # None /\ Len(order_by[1]) > 0
        THEN << " ","O","R","D","E","R"," ","B","Y"," " >> \o order_by[1] ELSE << >>)

\* the first field check of query_builder that fails, or "" when all pass
builder_rejection(table_name, columns, where, order_by, limit) ==
    IF ~match_table_name(table_name) THEN "table_name"
    ELSE IF bad_columns(columns) # {} THEN "columns"
    ELSE IF limit # None /\ limit[1] # 0 /\ limit[1] > BuilderLimitMax THEN "limit"
    ELSE IF where # None /\ Len(where[1]) > 0 /\ where_is_denied(where[1]) THEN "where"
    ELSE IF order_by # None /\ Len(order_by[1]) > 0 /\ ~match_order_by(order_by[1])
    THEN "order_by"
    ELSE ""

\* builder_named reporting the last column that fails instead of the first
builder_named_last(field, table_name, columns) ==
    IF field = "table_name" THEN table_name
    ELSE IF field = "columns"
    THEN LET bad == bad_columns(columns)
         IN  col_list(columns)[CHOOSE i \in bad : \A j \in bad : j <= i]
    ELSE << >>

\* what the InvalidParameterError of a field check names
builder_named(field, table_name, columns) ==
    IF field = "table_name" THEN table_name
    ELSE IF field = "columns"
    THEN LET bad == bad_columns(columns)
         IN  col_list(columns)[CHOOSE i \in bad : \A j \in bad : i <= j]
    ELSE << >>

\* query_builder(table_name, columns, where, order_by, limit)
query_builder(cm0, conn0, e, table_name, columns, where, order_by, limit, drv) ==
    LET field == builder_rejection(table_name, columns, where, order_by, limit)
    IN  IF field # ""
        THEN Effect(Outcome("InvalidParameterError", field,
                            builder_named(field, table_name, columns), << >>, FALSE),
                    cm0, conn0, << >>, None, None, 0)
        ELSE execute_query(cm0, conn0, e,
                           build_sql(table_name, columns, where, order_by, limit),
                           limit, drv)

(***************************************************************************)
(* queries.validate_query                                                  *)
(***************************************************************************)
\* dangerous_keywords of validate_query, in list order
dangerous_keywords ==
    << << "D","R","O","P" >>, << "D","E","L","E","T","E" >>, << "I","N","S","E","R","T" >>, << "U","P","D","A","T","E" >>, << "C","R","E","A","T","E" >>, << "A","L","T","E","R" >>, << "T","R","U","N","C","A","T","E" >> >>

\* re.search(r"FROM", s, re.IGNORECASE), without the word boundaries
search_nocase(lit, s) == \E i \in 1..Len(s) : LitAt(s, lit, i)

\* validate_query looking for FROM anywhere, also inside a longer word
validate_query_any_from(cm0, conn0, query) ==
    LET cleaned_query == strip(query)
        hits == { k \in 1..Len(dangerous_keywords) :
                    search_word(dangerous_keywords[k], cleaned_query) }
        verdict == IF ~startswith(upper(cleaned_query), SelectToken)
                   THEN Outcome("verdict", "NOT_A_SELECT", << >>, << >>, FALSE)
                   ELSE IF hits # {}
                   THEN Outcome("verdict", "DANGEROUS_KEYWORD",
                                dangerous_keywords[CHOOSE k \in hits : \A j \in hits : k <= j],
                                << >>, FALSE)
                   ELSE IF ~search_nocase(<< "F","R","O","M" >>, cleaned_query)
                   THEN Outcome("verdict", "MISSING_FROM", << >>, << >>, FALSE)
                   ELSE Outcome("verdict", "VALID", << >>, << >>, FALSE)
    IN  Effect(verdict, cm0, conn0, << >>, None, None, 0)

\* validate_query(query): the verdict returned; the manager singleton and
\* the connection are not touched
validate_query(cm0, conn0, query) ==
    LET cleaned_query == strip(query)
        hits == { k \in 1..Len(dangerous_keywords) :
                    search_word(dangerous_keywords[k], cleaned_query) }
        verdict == IF ~startswith(upper(cleaned_query), SelectToken)
                   THEN Outcome("verdict", "NOT_A_SELECT", << >>, << >>, FALSE)
                   ELSE IF hits # {}
                   THEN Outcome("verdict", "DANGEROUS_KEYWORD",
                                dangerous_keywords[CHOOSE k \in hits : \A j \in hits : k <= j],
                                << >>, FALSE)
                   ELSE IF ~search_word(<< "F","R","O","M" >>, cleaned_query)
                   THEN Outcome("verdict", "MISSING_FROM", << >>, << >>, FALSE)
                   ELSE Outcome("verdict", "VALID", << >>, << >>, FALSE)
    IN  Effect(verdict, cm0, conn0, << >>, None, None, 0)

(***************************************************************************)
(* schema.get_table_details.  The catalog is the server's: during a call   *)
(* cat.owners are the owners that have a table of the requested name, and  *)
(* cat.caseSensitive tells whether the database compares names with case.  *)
(***************************************************************************)
\* the text of a catalog statement on a system view (column list and joins
\* elided), with one '?' per authorized user in the IN list
catalog_statement(view, authorized_users) ==
    << "S","E","L","E","C","T"," ",".",".","."," ","F","R","O","M"," " >> \o view
    \o << " ",".",".","."," ","W","H","E","R","E"," ","t",".","t","a","b","l","e","_","n","a","m","e"," ","="," ","?"," ","A","N","D"," ","u",".","u","s","e","r","_","n","a","m","e"," ","I","N"," ","(" >>
    \o join([ i \in 1..Len(authorized_users) |-> << "?" >> ], << "," >>) \o << ")" >>

\* the owners the lookup's filter "u.user_name IN (<authorized users>)" keeps
lookup_rows(authorized_users, cat) ==
    { o \in cat.owners :
        \E i \in 1..Len(authorized_users) :
            IF cat.caseSensitive THEN o = authorized_users[i]
            ELSE lower(o) = lower(authorized_users[i]) }

\* errors.DatabaseNotFoundError(object_type, object_name)
DatabaseNotFoundError(object_type, object_name) ==
    Outcome("DatabaseNotFoundError", object_type, object_name, << >>, FALSE)

\* errors.AccessDeniedError(object_type, object_name)
AccessDeniedError(object_type, object_name) ==
    Outcome("AccessDeniedError", object_type, object_name, << >>, FALSE)

\* get_table_details telling a table of an unauthorized owner from a missing one
lookup_table_denying(cm1, table_name, drv, cat) ==
    LET users  == cm1[1].authorized_users
        lookup == catalog_statement(<< "S","Y","S",".","S","Y","S","T","A","B" >>, users)
    IN  IF ~drv.execOk
        THEN Effect(Outcome("pyodbc.Error", "", drv.error, << >>, FALSE),
                    cm1, "open", << lookup >>, None, None, 0)
        ELSE IF lookup_rows(users, cat) = {} /\ cat.owners # {}
        THEN Effect(AccessDeniedError("table", table_name),
                    cm1, "open", << lookup >>, None, None, 0)
        ELSE IF lookup_rows(users, cat) = {}
        THEN Effect(DatabaseNotFoundError("table", table_name),
                    cm1, "open", << lookup >>, None, None, 0)
        ELSE Effect(Outcome("ok", "table", table_name, << >>, FALSE), cm1, "open",
                    << lookup,
                       catalog_statement(<< "S","Y","S",".","S","Y","S","T","A","B","C","O","L" >>, users),
                       catalog_statement(<< "S","Y","S",".","S","Y","S","I","D","X"," ","(","p","r","i","m","a","r","y"," ","k","e","y",")" >>, users),
                       catalog_statement(<< "S","Y","S",".","S","Y","S","F","K","E","Y" >>, users),
                       catalog_statement(<< "S","Y","S",".","S","Y","S","I","D","X" >>, users) >>,
                    None, None, 0)

\* the end of get_table_details, from the cursor on: the lookup filtered by
\* the authorized users, then the four detail statements
lookup_table(cm1, table_name, drv, cat) ==
    LET users  == cm1[1].authorized_users
        lookup == catalog_statement(<< "S","Y","S",".","S","Y","S","T","A","B" >>, users)
    IN  IF ~drv.execOk
        THEN Effect(Outcome("pyodbc.Error", "", drv.error, << >>, FALSE),
                    cm1, "open", << lookup >>, None, None, 0)
        ELSE IF lookup_rows(users, cat) = {}
        THEN Effect(DatabaseNotFoundError("table", table_name),
                    cm1, "open", << lookup >>, None, None, 0)
        ELSE Effect(Outcome("ok", "table", table_name, << >>, FALSE), cm1, "open",
                    << lookup,
                       catalog_statement(<< "S","Y","S",".","S","Y","S","T","A","B","C","O","L" >>, users),
                       catalog_statement(<< "S","Y","S",".","S","Y","S","I","D","X"," ","(","p","r","i","m","a","r","y"," ","k","e","y",")" >>, users),
                       catalog_statement(<< "S","Y","S",".","S","Y","S","F","K","E","Y" >>, users),
                       catalog_statement(<< "S","Y","S",".","S","Y","S","I","D","X" >>, users) >>,
                    None, None, 0)

\* schema.get_table_details(table_name)
get_table_details(cm0, conn0, e, table_name, drv, cat) ==
    LET g == get_connection_manager(cm0, e)
    IN  IF g.raised
        THEN Effect(Outcome("ValueError", "NO_DATABASE", << >>, << >>, FALSE),
                    cm0, conn0, << >>, None, None, 0)
        ELSE LET c == connect(g.cm[1].connection_string, conn0, drv)
             IN  IF c.raised
                 THEN [ Effect(Outcome("ConnectionError", "", c.msg, << >>, FALSE),
                               g.cm, c.conn, << >>, None, None, 0)
                          EXCEPT !.events = c.events ]
                 ELSE [ lookup_table(g.cm, table_name, drv, cat) EXCEPT !.events = c.events ]

(***************************************************************************)
(* The connection methods called on the process-wide manager, and the tool *)
(* sqlanywhere_connect.                                                    *)
(***************************************************************************)
\* str(e) of the ValueError of _build_connection_string
NoDatabaseMessage ==
    << "S","Q","L","A","N","Y","W","H","E","R","E","_","D","A","T","A","B","A","S","E"," ","o","r"," ","S","Q","L","A","N","Y","W","H","E","R","E","_","C","O","N","N","E","C","T","I","O","N","_","S","T","R","I","N","G"," ","m","u","s","t"," ","b","e"," ","p","r","o","v","i","d","e","d" >>

\* the effect of a failed construction of the manager
construction_failed(cm0, conn0) ==
    Effect(Outcome("ValueError", "NO_DATABASE", NoDatabaseMessage, << >>, FALSE),
           cm0, conn0, << >>, None, None, 0)

\* get_connection_manager().connect()
manager_connect(cm0, conn0, e, drv) ==
    LET g == get_connection_manager(cm0, e)
    IN  IF g.raised THEN construction_failed(cm0, conn0)
        ELSE LET c == connect(g.cm[1].connection_string, conn0, drv)
                 out == IF c.raised THEN Outcome("ConnectionError", "connect", c.msg, << >>, FALSE)
                        ELSE Outcome("ok", "connect", << >>, << >>, FALSE)
             IN  [ Effect(out, g.cm, c.conn, << >>, None, None, 0) EXCEPT !.events = c.events ]

\* disconnect() that also drops the process-wide manager
manager_disconnect_dropping_manager(cm0, conn0, e) ==
    LET g == get_connection_manager(cm0, e)
    IN  IF g.raised THEN construction_failed(cm0, conn0)
        ELSE LET d == disconnect(conn0)
             IN  [ Effect(Outcome("ok", "disconnect", << >>, << >>, FALSE),
                          None, d.conn, << >>, None, None, 0) EXCEPT !.events = d.events ]

\* get_connection_manager().disconnect()
manager_disconnect(cm0, conn0, e) ==
    LET g == get_connection_manager(cm0, e)
    IN  IF g.raised THEN construction_failed(cm0, conn0)
        ELSE LET d == disconnect(conn0)
             IN  [ Effect(Outcome("ok", "disconnect", << >>, << >>, FALSE),
                          g.cm, d.conn, << >>, None, None, 0) EXCEPT !.events = d.events ]

\* get_connection_manager().reconnect()
manager_reconnect(cm0, conn0, e, drv) ==
    LET g == get_connection_manager(cm0, e)
    IN  IF g.raised THEN construction_failed(cm0, conn0)
        ELSE LET c == reconnect(g.cm[1].connection_string, conn0, drv)
                 out == IF c.raised THEN Outcome("ConnectionError", "reconnect", c.msg, << >>, FALSE)
                        ELSE Outcome("ok", "reconnect", << >>, << >>, FALSE)
             IN  [ Effect(out, g.cm, c.conn, << >>, None, None, 0) EXCEPT !.events = c.events ]

\* get_connection_manager().get_connection()
manager_get_connection(cm0, conn0, e, drv) ==
    LET g == get_connection_manager(cm0, e)
    IN  IF g.raised THEN construction_failed(cm0, conn0)
        ELSE LET c == get_connection(g.cm[1].connection_string, conn0, drv)
                 out == IF c.raised
                        THEN Outcome("ConnectionError", "get_connection", c.msg, << >>, FALSE)
                        ELSE Outcome("ok", "get_connection", << >>, << >>, FALSE)
             IN  [ Effect(out, g.cm, c.conn, c.log, None, None, 0) EXCEPT !.events = c.events ]

\* the heading sqlanywhere_connect puts before str(e)
ConnectionErrorHeading == << "#","#"," ","C","o","n","n","e","c","t","i","o","n"," ","E","r","r","o","r","\n","\n" >>

\* server.sqlanywhere_connect(): the connection status, or for any exception
\* the heading and str(e); conn.getinfo asks the driver for the server and
\* database names
sqlanywhere_connect(cm0, conn0, e, drv) ==
    LET r == manager_connect(cm0, conn0, e, drv)
    IN  IF r.out.kind # "ok"
        THEN [ r EXCEPT !.out = Outcome("reported", r.out.kind,
                                        ConnectionErrorHeading \o r.out.named, << >>, FALSE) ]
        ELSE IF ~drv.execOk
        THEN [ r EXCEPT !.out = Outcome("reported", "pyodbc.Error",
                                        ConnectionErrorHeading \o drv.error, << >>, FALSE) ]
        ELSE [ r EXCEPT !.out = Outcome("reported", "connected", << >>, << >>, FALSE) ]

(***************************************************************************)
(* server: the tool handlers of the three query tools.  Each is             *)
(*     try: return await queries.<f>(<keywords>)                            *)
(*     except MCPError as e: return str(e)                                  *)
(***************************************************************************)
\* the parameters of queries.execute_query, query_builder and validate_query
ExecuteQueryParameters == { "query", "limit" }

QueryBuilderParameters == { "table_name", "columns", "where", "order_by", "limit" }

ValidateQueryParameters == { "query" }

\* the exception classes derived from errors.MCPError
MCPErrorKinds ==
    { "QueryValidationError", "InvalidParameterError", "DatabaseError",
      "DatabaseNotFoundError" }

\* the exception that leaves a handler
Escaped(kind, reason) == Outcome(kind, reason, << >>, << >>, FALSE)

\* the string a handler returns for the MCPError o
Reported(o) == Outcome("reported", o.kind, o.named, << >>, FALSE)

\* the handler body around a call of a plain (non-async) function of queries
\* with the given keywords, whose effect would be r: a keyword the function
\* does not have raises TypeError at the call; an MCPError is returned as
\* its text; any other exception leaves the handler; a returned str is not
\* awaitable, so the await raises TypeError
await_tool_call(keywords, parameters, cm0, conn0, r) ==
    IF ~(keywords \subseteq parameters)
    THEN Effect(Escaped("TypeError", "unexpected keyword argument"),
                cm0, conn0, << >>, None, None, 0)
    ELSE IF r.out.kind \in MCPErrorKinds
    THEN [ r EXCEPT !.out = Reported(r.out) ]
    ELSE IF r.out.kind \in { "ok", "verdict" }
    THEN [ r EXCEPT !.out = Escaped("TypeError", "str is not awaitable") ]
    ELSE r

\* the length and range constraints of the fields of QueryBuilderInput
TableNameMinLength == 3

TableNameMaxLength == 200

ColumnsMaxLength == 1000

WhereMaxLength == 2000

OrderByMaxLength == 500

InputLimitMax == 10000

\* QueryBuilderInput validating the fields as they were sent, unstripped
QueryBuilderInput_without_strip(table_name, columns, where, order_by, limit) ==
    LET ok == /\ Len(table_name) >= TableNameMinLength
              /\ Len(table_name) <= TableNameMaxLength
              /\ \E i \in 1..Len(table_name) : table_name[i] = "."
    IN  [ raised |-> ~ok, table_name |-> table_name, columns |-> columns,
          where |-> where, order_by |-> order_by, limit |-> limit ]

\* models.QueryBuilderInput: every str field is stripped (str_strip_whitespace),
\* then checked against its length bounds and its validator; limit must be
\* within 1..10000.  The validated fields, or the ValidationError
QueryBuilderInput(table_name, columns, where, order_by, limit) ==
    LET tn == strip(table_name)
        cs == strip(columns)
        w  == IF where = None THEN None ELSE Some(strip(where[1]))
        ob == IF order_by = None THEN None ELSE Some(strip(order_by[1]))
        ok == /\ Len(tn) >= TableNameMinLength
              /\ Len(tn) <= TableNameMaxLength
              /\ \E i \in 1..Len(tn) : tn[i] = "."
              /\ Len(cs) <= ColumnsMaxLength
              /\ bad_columns(cs) = {}
              /\ w # None => /\ Len(w[1]) <= WhereMaxLength
                             /\ Len(w[1]) > 0 => ~where_is_denied(w[1])
              /\ ob # None => /\ Len(ob[1]) <= OrderByMaxLength
                              /\ Len(ob[1]) > 0 => match_order_by(ob[1])
              /\ limit # None => (limit[1] >= 1 /\ limit[1] <= InputLimitMax)
    IN  [ raised |-> ~ok, table_name |-> tn, columns |-> cs, where |-> w,
          order_by |-> ob, limit |-> limit ]

\* server.sqlanywhere_execute_query(params)
sqlanywhere_execute_query(cm0, conn0, e, query, limit, drv) ==
    await_tool_call({ "query", "limit", "response_format" }, ExecuteQueryParameters,
                    cm0, conn0, execute_query(cm0, conn0, e, query, limit, drv))

\* server.sqlanywhere_query_builder(params)
sqlanywhere_query_builder(cm0, conn0, e, table_name, columns, where, order_by, limit, drv) ==
    await_tool_call({ "table_name", "columns", "where", "order_by", "limit", "response_format" },
                    QueryBuilderParameters, cm0, conn0,
                    query_builder(cm0, conn0, e, table_name, columns, where, order_by, limit, drv))

\* server.sqlanywhere_validate_query(params)
sqlanywhere_validate_query(cm0, conn0, query) ==
    await_tool_call({ "query" }, ValidateQueryParameters, cm0, conn0,
                    validate_query(cm0, conn0, query))

(***************************************************************************)
(* Inputs.                                                                 *)
(***************************************************************************)
\* the process environment: SQLANYWHERE_* settings
BaseEnv ==
    [ connection_string |-> None,
      driver |-> << "S","Q","L"," ","A","n","y","w","h","e","r","e"," ","1","7" >>,
      database |-> << "d","b" >>,
      user |-> << "u" >>,
      password |-> << "p","w" >>,
      server_name |-> << "s","r","v" >>,
      host |-> Some(<< "h" >>),
      port |-> << "2","6","3","8" >>,
      use_tcp |-> << "f","a","l","s","e" >>,
      encrypt |-> << >>,
      max_rows |-> 1,
      max_rows_limit |-> 2,
      authorized_users |-> Some(<< "d","b","o" >>) ]

\* values of SQLANYWHERE_AUTHORIZED_USERS: unset, or a string
AuthorizedUsersSettings ==
    { None, Some(<< >>), Some(<< " ",","," " >>), Some(<< "D","B","O",","," ","m","o","n","i","t","o","r" >>) }

\* the environments the process starts in
Environments ==
    { [ BaseEnv EXCEPT !.max_rows = d, !.max_rows_limit = c ] :
        d \in 0..MaxCfg, c \in 0..MaxCfg }
    \cup { [ BaseEnv EXCEPT !.max_rows_limit = BuilderLimitMax + 1 ] }
    \cup { [ BaseEnv EXCEPT !.authorized_users = u ] : u \in AuthorizedUsersSettings }
    \cup { [ BaseEnv EXCEPT !.connection_string = Some(<< >>) ],
           [ BaseEnv EXCEPT !.connection_string = Some(<< >>), !.database = << >> ],
           [ BaseEnv EXCEPT !.connection_string = Some(<< "D","S","N","=","x",";","P","W","D","=","s","3" >>) ],
           [ BaseEnv EXCEPT !.database = << >>, !.server_name = << >> ],
           [ BaseEnv EXCEPT !.password = << "s","3" >> ],
           [ BaseEnv EXCEPT !.password = << >> ] }
    \cup { [ BaseEnv EXCEPT !.database = << >> ],
           [ BaseEnv EXCEPT !.database = << >>, !.connection_string = Some(<< "D","S","N","=","x" >>) ],
           [ BaseEnv EXCEPT !.server_name = << >> ],
           [ BaseEnv EXCEPT !.use_tcp = << "T","r","u","e" >>, !.encrypt = << "Y","E","S" >> ] }

\* the pieces raw queries are made of
Fragments ==
    << << "S","E","L","E","C","T" >>,
       << "s","e","l","e","c","t" >>,
       << " " >>,
       << "\n" >>,
       << "_" >>,
       << Ypogegrammeni >>,
       << "'" >>,
       << "D","R","O","P" >>,
       << "e","x","e","c" >>,
       << "f","r","o","m" >>,
       << "E","x","e","c","u","t","e" >>,
       << " ","*"," ","F","R","O","M"," ","e","v","i","l",".","t" >> >>

RECURSIVE Flatten(_)
\* the concatenation of a sequence of strings
Flatten(parts) == IF Len(parts) = 0 THEN << >> ELSE parts[1] \o Flatten(Tail(parts))

\* every concatenation of 1..n fragments
RawQueries(n) ==
    { Flatten([ i \in DOMAIN f |-> Fragments[f[i]] ]) :
        f \in UNION { [1..k -> 1..Len(Fragments)] : k \in 1..n } }

\* well-formed queries used where the limit and the driver vary
QueryCorpus ==
    { << "S","E","L","E","C","T"," ","*"," ","F","R","O","M"," ","d","b","o",".","t" >>,
      << "\n", "\t" >> \o << "S","e","l","e","c","t"," ","1" >> \o << " ", "\n" >>,
      << "s","e","l","e","c","t"," ","a"," ","f","r","o","m"," ","E","V","I","L",".","t"," ","j","o","i","n"," ","d","b","o",".","u" >> }

\* queries that spell denylisted words, alone and several at a time
KeywordCorpus ==
    { << "s","e","l","e","c","t"," ","g","r","a","n","t"," ","f","r","o","m"," ","t" >>,
      << "S","E","L","E","C","T"," ","a"," ","F","R","O","M"," ","t"," ","W","H","E","R","E"," ","b"," ","="," ","'","r","e","v","o","k","e","'" >>,
      << "s","e","l","e","c","t"," ","e","x","e","c","u","t","e"," ","f","r","o","m"," ","t" >>,
      << "s","e","l","e","c","t"," ","e","x","e","c","u","t","e",","," ","e","x","e","c",","," ","d","r","o","p"," ","f","r","o","m"," ","t" >>,
      << "s","e","l","e","c","t"," ","'","U","p","d","a","t","e","'",","," ","d","e","l","e","t","e"," ","f","r","o","m"," ","t" >>,
      << "s","e","l","e","c","t"," ","d","r","o","p" >> \o << Ypogegrammeni >> \o << ","," ","e","x","e","c"," ","f","r","o","m"," ","t" >> }

\* queries that fail the classification, used where the limit and the
\* driver vary
RejectedCorpus ==
    { << "D","R","O","P"," ","T","A","B","L","E"," ","t" >>, << "u","p","d","a","t","e"," ","t"," ","s","e","t"," ","a"," ","="," ","1" >>, << "s","e","l","e","c","t"," ","1",";"," ","d","r","o","p"," ","t","a","b","l","e"," ","t" >> }

\* the limits a caller passes: None, or an int
Limits == { None } \cup { Some(n) : n \in (0 - 2)..(MaxCfg + 1) }

\* str(e) of the pyodbc.Error the driver raises when it fails
NoDriverError == << "0","8","S","0","1" >>

DriverErrors == { NoDriverError, << "4","2","0","0","0"," ","S","y","n","t","a","x"," ","e","r","r","o","r" >> }

\* what the driver does during a call; the choices a call cannot observe are fixed
Drivers(conn0) ==
    { d \in [ connectOk : BOOLEAN, probeOk : BOOLEAN, execOk : BOOLEAN, avail : 0..MaxRows,
              error : DriverErrors ] :
        /\ conn0 = "none" => d.probeOk
        /\ (conn0 = "open" /\ d.probeOk) => d.connectOk
        /\ ~d.execOk => d.avail = 0
        /\ ~d.connectOk => (d.execOk /\ d.avail = 0)
        /\ (d.connectOk /\ d.execOk) => d.error = NoDriverError }

\* a driver that works and has one row
NominalDriver ==
    [ connectOk |-> TRUE, probeOk |-> TRUE, execOk |-> TRUE, avail |-> 1,
      error |-> NoDriverError ]

\* the (query, limit, driver) triples execute_query is called with: the text
\* of the query varies in the base environment (the checks on the text read
\* neither the environment nor the manager), the limit and the driver vary
\* in every environment
ExecuteInputs(e, conn0) ==
    (IF e = BaseEnv THEN (RawQueries(MaxParts) \cup KeywordCorpus) \X { None } \X { NominalDriver }
     ELSE {})
    \cup ((QueryCorpus \cup RejectedCorpus) \X Limits \X Drivers(conn0))

TableNames ==
    { << "d","b","o",".","t" >>, << "P","a","r","t" >>, << "e","v","i","l",".","F","o","o" >>,
      << "a",".","b",".","c" >>, << "d","b","o",".","1","t" >>, << "d","b","o","." >>,
      << "d","b","o",".","d","r","o","p" >>, << "d","b","o",".","t" >> \o << "\n" >>, << "t",";","x" >>, << >> }

ColumnLists ==
    { << "*" >>, << "I","d",",","N","a","m","e" >>, << "N","a","m","e"," ",","," ","I","d" >>, << "I","d",";"," ","D","R","O","P"," ","T","A","B","L","E"," ","x" >>,
      << "a",",",",","b" >>, << "1","a",",","b"," ","c" >>, << "u","p","d","a","t","e" >>, << >>,
      << " ","I","d"," ",",","\n","N","a","m","e","\n" >>, << "a", KelvinSign >>, << "I","d",",","*" >> }

Wheres ==
    { None, Some(<< >>), Some(<< "I","d"," ","="," ","1" >>), Some(<< "a"," ","="," ","1",";"," ","x" >>),
      Some(<< "a"," ","="," ","1"," ","-","-"," ","x" >>), Some(<< "a"," ","/","*"," ","x" >>), Some(<< "x"," ","*","/"," ","a" >>),
      Some(<< "n"," ","="," ","'","D","e","l","e","t","e","'" >>),
      Some(<< " " >>), Some(<< "a"," ","-"," ","b"," ","/"," ","c"," ","*"," ","d" >>), Some(<< "-","-" >>), Some(<< "x","*","/" >>), Some(<< "a"," ","="," ","1"," ","/" >>) }

OrderBys ==
    { None, Some(<< >>), Some(<< "I","d" >>), Some(<< "I","d"," ","d","e","s","c",","," ","N","a","m","e"," "," ","A","S","C" >>),
      Some(<< "I","d",",","N","a","m","e" >>), Some(<< "I","d",","," ","N","a","m","e"," ","x" >>), Some(<< "I","d"," ","A","S","C"," ","D","E","S","C" >>),
      Some(<< "I","d",";" >>), Some(<< "a","l","t","e","r" >>),
      Some(<< "I","d","\n" >>), Some(<< KelvinSign >>), Some(<< "I","d"," ",",","N","a","m","e" >>), Some(<< "I","d",",","\n","N","a","m","e" >>),
      Some(<< "I","d","\t","d","e","s","c" >>), Some(<< "I","d"," ","A","S","C"," " >>), Some(<< " ","I","d" >>), Some(<< "I","d","," >>) }

\* the limits query_builder is called with
BuilderLimits == Limits \cup { Some(BuilderLimitMax), Some(BuilderLimitMax + 1) }

\* the argument tuples query_builder is called with
BuilderInputs(e, conn0) ==
    (IF e # BaseEnv THEN {} ELSE
     (TableNames \X ColumnLists \X { None } \X { None } \X { None, Some(1) }
        \X { NominalDriver })
    \cup ({ << "d","b","o",".","t" >> } \X { << "*" >> } \X Wheres \X OrderBys \X { None, Some(1) }
        \X { NominalDriver }))
    \cup ({ << "d","b","o",".","t" >> } \X { << "I","d",",","N","a","m","e" >> } \X { None, Some(<< "I","d"," ","="," ","1" >>) }
        \X { None } \X BuilderLimits \X Drivers(conn0))
    \cup ({ << "m","o","n","i","t","o","r",".","P","a","r","t" >> } \X { << "I","d",",","P","a","r","t","N","u","m","b","e","r" >> } \X { None } \X { None } \X { Some(10) }
        \X { NominalDriver })

(***************************************************************************)
(* The state machine.                                                      *)
(***************************************************************************)
VARIABLES
    env,        \* the process environment, read when the manager is built
    cm,         \* db._connection_manager: None or the manager's fields
    conn,       \* the manager's _connection: "none" or "open"
    pc,         \* "idle", or "returned" when a call has just returned
    call,       \* the call that has just returned: its arguments, what the
                \* driver did during it, and the connection held when it began
    outcome,    \* what it returned or raised
    driverLog,  \* the statements it sent to the driver, in order
    passed,     \* the max_rows it handed to execute_query_with_metadata
    fetch,      \* the fetch size asked of the cursor and the rows the driver gave
    connLog,    \* the connections it opened, failed to open and closed, in order
    live        \* the driver's count of connections opened and not yet closed

vars == << env, cm, conn, pc, call, outcome, driverLog, passed, fetch, connLog, live >>

\* a catalog without a table of the requested name
NoCatalog == [ owners |-> {}, caseSensitive |-> TRUE ]

\* the owners a table of the requested name can have in the catalog
CatalogOwners == { << "m","o","n","i","t","o","r" >>, << "M","O","N","I","T","O","R" >>, << "e","v","i","l" >> }

\* what the catalog holds under the requested name during a call
Catalogs == [ owners : SUBSET CatalogOwners, caseSensitive : BOOLEAN ]

\* the table names get_table_details is called with
DetailsTableNames == { << "P","a","r","t" >>, << "e","v","i","l",".","P","a","r","t" >>, << "x","'"," ","O","R"," ","'","1","'","=","'","1" >> }

NoCall ==
    [ op |-> "none", query |-> << >>, limit |-> None, drv |-> NominalDriver,
      table_name |-> << >>, columns |-> << >>, where |-> None, order_by |-> None,
      held |-> "none", cat |-> NoCatalog, raw |-> << >> ]

NoFetch == [ size |-> None, fetched |-> 0 ]

Init ==
    /\ env \in Environments
    /\ cm = None
    /\ conn = "none"
    /\ pc = "idle"
    /\ call = NoCall
    /\ outcome = NoOutcome
    /\ driverLog = << >>
    /\ passed = None
    /\ fetch = NoFetch
    /\ connLog = << >>
    /\ live = 0

\* how many times the event occurs in a call's connection events
Count(events, event) == Cardinality({ i \in 1..Len(events) : events[i] = event })

\* a call returns with effect r
Return(r) ==
    /\ pc' = "returned"
    /\ cm' = r.cm
    /\ conn' = r.conn
    /\ outcome' = r.out
    /\ driverLog' = r.log
    /\ passed' = r.max_rows
    /\ fetch' = [ size |-> r.size, fetched |-> r.fetched ]
    /\ connLog' = r.events
    /\ live' = live + Count(r.events, "connect") - Count(r.events, "close")
    /\ UNCHANGED env

\* a caller runs queries.execute_query(query, limit)
ExecuteQuery ==
    /\ pc = "idle"
    /\ \E in \in ExecuteInputs(env, conn) :
           /\ call' = [ NoCall EXCEPT !.op = "execute_query", !.query = in[1],
                                      !.limit = in[2], !.drv = in[3], !.held = conn ]
           /\ Return(execute_query(cm, conn, env, in[1], in[2], in[3]))

\* a caller runs queries.query_builder(table_name, columns, where, order_by, limit)
QueryBuilder ==
    /\ pc = "idle"
    /\ \E in \in BuilderInputs(env, conn) :
           /\ call' = [ NoCall EXCEPT
                          !.op = "query_builder", !.held = conn,
                          !.table_name = in[1], !.columns = in[2], !.where = in[3],
                          !.order_by = in[4], !.limit = in[5], !.drv = in[6],
                          !.query = build_sql(in[1], in[2], in[3], in[4], in[5]) ]
           /\ Return(query_builder(cm, conn, env, in[1], in[2], in[3], in[4], in[5], in[6]))

\* the queries validate_query is called with
ValidateInputs(e) ==
    IF e = BaseEnv THEN RawQueries(MaxParts) \cup QueryCorpus \cup KeywordCorpus ELSE QueryCorpus

\* a caller runs queries.validate_query(query)
ValidateQuery ==
    /\ pc = "idle"
    /\ \E q \in ValidateInputs(env) :
           /\ call' = [ NoCall EXCEPT !.op = "validate_query", !.query = q, !.held = conn ]
           /\ Return(validate_query(cm, conn, q))

\* the host calls the tool sqlanywhere_execute_query
ToolExecuteQuery ==
    /\ pc = "idle"
    /\ \E in \in { strip(q) : q \in QueryCorpus } \X { None, Some(1), Some(MaxCfg + 1) }
                   \X Drivers(conn) :
           /\ call' = [ NoCall EXCEPT !.op = "sqlanywhere_execute_query", !.query = in[1],
                                      !.limit = in[2], !.drv = in[3], !.held = conn ]
           /\ Return(sqlanywhere_execute_query(cm, conn, env, in[1], in[2], in[3]))

\* the table names the host sends to the tool sqlanywhere_query_builder
ToolTableNames ==
    { << "d","b","o",".","t" >>, << "d","b","o",".","1","t" >>, << "d","b","o",".","t","\n" >>, << " ","m","o","n","i","t","o","r",".","P","a","r","t","\n" >>, << "P","a","r","t" >>, << "a",".","b",".","c" >>,
      << "d","b","o","." >>, << ".","t","1" >>, << "a",".",".","b" >>, << "a",".","b" >>, << "t",".","\n" >>, << "x",".","y",";","z" >>, << "d","b","o",".","t","\n","x" >>, << "a","." >>,
      << "d","b","o",".", KelvinSign >> }

\* the arguments the host sends to the tool sqlanywhere_query_builder
ToolBuilderInputs(conn0) ==
    (ToolTableNames \X { << "*" >>, << "I","d",","," ","N","a","m","e"," " >> } \X { None } \X { None }
        \X { None, Some(1) } \X { NominalDriver })
    \cup ({ << "d","b","o",".","t" >> } \X { << "*" >>, << "I","d",";" >> } \X { None, Some(<< "a"," ","="," ","1"," " >>), Some(<< "a",";" >>) }
           \X { None, Some(<< "I","d"," ","d","e","s","c" >>), Some(<< "I","d"," ","x" >>) }
           \X { None, Some(0), Some(1), Some(MaxCfg + 1), Some(InputLimitMax + 1) }
           \X { d \in Drivers(conn0) : d.avail = 1 })

\* the host calls the tool sqlanywhere_query_builder: the arguments are
\* validated as a QueryBuilderInput, and the handler runs when they pass
ToolQueryBuilder ==
    /\ pc = "idle"
    /\ \E in \in ToolBuilderInputs(conn) :
           LET params == QueryBuilderInput(in[1], in[2], in[3], in[4], in[5])
           IN  IF params.raised
               THEN /\ call' = [ NoCall EXCEPT
                                   !.op = "QueryBuilderInput", !.held = conn, !.raw = in[1],
                                   !.table_name = params.table_name, !.drv = in[6] ]
                    /\ Return(Effect(Escaped("ValidationError", "params"),
                                     cm, conn, << >>, None, None, 0))
               ELSE /\ call' = [ NoCall EXCEPT
                                   !.op = "sqlanywhere_query_builder", !.held = conn,
                                   !.raw = in[1], !.table_name = params.table_name,
                                   !.columns = params.columns, !.where = params.where,
                                   !.order_by = params.order_by, !.limit = params.limit,
                                   !.drv = in[6] ]
                    /\ Return(sqlanywhere_query_builder(cm, conn, env, params.table_name,
                                   params.columns, params.where, params.order_by,
                                   params.limit, in[6]))

\* the host calls the tool sqlanywhere_validate_query
ToolValidateQuery ==
    /\ pc = "idle"
    /\ \E q \in QueryCorpus \cup { << "s","e","l","e","c","t"," ","1" >>, << "s","e","l","e","c","t"," ","d","r","o","p" >> } :
           /\ call' = [ NoCall EXCEPT !.op = "sqlanywhere_validate_query", !.query = q,
                                      !.held = conn ]
           /\ Return(sqlanywhere_validate_query(cm, conn, q))

\* a caller runs schema.get_table_details(table_name)
GetTableDetails ==
    /\ pc = "idle"
    /\ \E in \in DetailsTableNames \X Drivers(conn) \X Catalogs :
           /\ in[2].probeOk /\ in[2].avail = 0
           /\ call' = [ NoCall EXCEPT !.op = "get_table_details", !.table_name = in[1],
                                      !.drv = in[2], !.cat = in[3], !.held = conn ]
           /\ Return(get_table_details(cm, conn, env, in[1], in[2], in[3]))

\* what the driver does during a call of a connection method
ConnectionDrivers(conn0) == { d \in Drivers(conn0) : d.avail = 0 }

\* a caller runs get_connection_manager().connect()
ManagerConnect ==
    /\ pc = "idle"
    /\ \E d \in ConnectionDrivers(conn) :
           /\ call' = [ NoCall EXCEPT !.op = "connect", !.drv = d, !.held = conn ]
           /\ Return(manager_connect(cm, conn, env, d))

\* a caller runs get_connection_manager().disconnect()
ManagerDisconnect ==
    /\ pc = "idle"
    /\ call' = [ NoCall EXCEPT !.op = "disconnect", !.held = conn ]
    /\ Return(manager_disconnect(cm, conn, env))

\* a caller runs get_connection_manager().reconnect()
ManagerReconnect ==
    /\ pc = "idle"
    /\ \E d \in ConnectionDrivers(conn) :
           /\ call' = [ NoCall EXCEPT !.op = "reconnect", !.drv = d, !.held = conn ]
           /\ Return(manager_reconnect(cm, conn, env, d))

\* a caller runs get_connection_manager().get_connection()
ManagerGetConnection ==
    /\ pc = "idle"
    /\ \E d \in ConnectionDrivers(conn) :
           /\ call' = [ NoCall EXCEPT !.op = "get_connection", !.drv = d, !.held = conn ]
           /\ Return(manager_get_connection(cm, conn, env, d))

\* the host calls the tool sqlanywhere_connect
ToolConnect ==
    /\ pc = "idle"
    /\ \E d \in ConnectionDrivers(conn) :
           /\ call' = [ NoCall EXCEPT !.op = "sqlanywhere_connect", !.drv = d, !.held = conn ]
           /\ Return(sqlanywhere_connect(cm, conn, env, d))

\* the caller has taken the result; the process waits for the next call
Respond ==
    /\ pc = "returned"
    /\ pc' = "idle"
    /\ call' = NoCall
    /\ outcome' = NoOutcome
    /\ driverLog' = << >>
    /\ passed' = None
    /\ fetch' = NoFetch
    /\ connLog' = << >>
    /\ UNCHANGED << env, cm, conn, live >>

Next ==
    \/ ExecuteQuery
    \/ QueryBuilder
    \/ ValidateQuery
    \/ ToolExecuteQuery
    \/ ToolQueryBuilder
    \/ ToolValidateQuery
    \/ GetTableDetails
    \/ ManagerConnect
    \/ ManagerDisconnect
    \/ ManagerReconnect
    \/ ManagerGetConnection
    \/ ToolConnect
    \/ Respond

Spec == Init /\ [][Next]_vars

(***************************************************************************)
(* Vocabulary of the properties, stated on the caller's text and not on    *)
(* the code's intermediate values.                                         *)
(***************************************************************************)
\* two characters are the same letter in either case, or the same character
SameLetter(a, b) ==
    \/ a = b
    \/ \E i \in 1..26 : { a, b } = { LowerLetters[i], UpperLetters[i] }

\* w occurs in q as a whole word (not adjoining a letter, digit or underscore),
\* in any letter case
OccursAsWord(q, w) ==
    \E i \in 1..Len(q) :
        /\ i + Len(w) - 1 <= Len(q)
        /\ \A k \in 1..Len(w) : SameLetter(q[i + k - 1], w[k])
        /\ i = 1 \/ q[i - 1] \notin WordSet
        /\ i + Len(w) > Len(q) \/ q[i + Len(w)] \notin WordSet

\* the denylist of the specification
DeniedWords ==
    { << "D","R","O","P" >>,
      << "D","E","L","E","T","E" >>,
      << "I","N","S","E","R","T" >>,
      << "U","P","D","A","T","E" >>,
      << "C","R","E","A","T","E" >>,
      << "A","L","T","E","R" >>,
      << "T","R","U","N","C","A","T","E" >>,
      << "G","R","A","N","T" >>,
      << "R","E","V","O","K","E" >>,
      << "E","X","E","C" >>,
      << "E","X","E","C","U","T","E" >> }

ContainsDeniedWord(q) == \E w \in DeniedWords : OccursAsWord(q, w)

\* after its leading whitespace, q begins with SELECT in any letter case
BeginsWithSelect(q) ==
    \E k \in 0..Len(q) :
        /\ \A j \in 1..k : q[j] \in SpaceSet
        /\ k + 6 <= Len(q)
        /\ \A j \in 1..6 : SameLetter(q[k + j], SelectToken[j])

\* the owners q names right after a FROM or JOIN token (owner.table), lower-cased
referenced_owners(q) ==
    { lower(SubSeq(q, a, b)) : <<a, b>> \in
        { ab \in (1..Len(q)) \X (1..Len(q)) :
            /\ ab[1] <= ab[2]
            /\ ab[2] + 1 <= Len(q)
            /\ q[ab[2] + 1] = "."
            /\ IsIdent(SubSeq(q, ab[1], ab[2]))
            /\ \E p \in 5..(ab[1] - 1) :
                   /\ \A j \in p..(ab[1] - 1) : q[j] \in SpaceSet
                   /\ \/ LitAt(q, << "F","R","O","M" >>, p - 4)
                      \/ LitAt(q, << "J","O","I","N" >>, p - 4)
                   /\ p - 4 = 1 \/ q[p - 5] \notin WordSet } }

\* the owners q names that are outside the authorized list, compared in lower case
unauthorized_owners(q, authorized) ==
    referenced_owners(q) \ { lower(authorized[i]) : i \in 1..Len(authorized) }

Returned(op) == pc = "returned" /\ call.op = op

\* a validation step rejected the request
Rejected == outcome.kind \in { "QueryValidationError", "InvalidParameterError" }

\* the call reached the limit resolution of execute_query
ReachedLimitCheck ==
    /\ pc = "returned"
    /\ cm # None
    /\ outcome.kind \in { "InvalidParameterError", "DatabaseError", "ok" }
    /\ ~(outcome.kind = "InvalidParameterError" /\ outcome.reason # "limit")
    /\ ~(call.op = "query_builder" /\ outcome.kind = "InvalidParameterError"
           /\ call.limit # None /\ call.limit[1] > BuilderLimitMax)

Min(a, b) == IF a < b THEN a ELSE b

\* a letter or underscore followed by letters, digits and underscores
SimpleIdentifier(t) ==
    /\ Len(t) >= 1
    /\ t[1] \in LowerSet \cup UpperSet \cup { "_" }
    /\ \A i \in 2..Len(t) : t[i] \in LowerSet \cup UpperSet \cup DigitSet \cup { "_" }

\* the comma-separated tokens of a text, each trimmed
TrimmedTokens(s) ==
    LET parts == split(s, ",") IN [ i \in 1..Len(parts) |-> strip(parts[i]) ]

\* the statement the call handed to execution (the last one sent to the driver)
Sent == driverLog[Len(driverLog)]

\* the call handed the driver a statement other than the liveness probe
Executed == driverLog # << >> /\ Sent # ProbeStatement

\* the text t occurs in s, starting at position i
OccursAt(s, t, i) ==
    /\ i >= 1
    /\ i + Len(t) - 1 <= Len(s)
    /\ SubSeq(s, i, i + Len(t) - 1) = t

\* sql is SELECT, an optional TOP n, then the text cols, then FROM
SelectsColumns(sql, cols) ==
    \E i \in 1..Len(sql) :
        /\ OccursAt(sql, cols \o << " ","F","R","O","M"," " >>, i)
        /\ \/ SubSeq(sql, 1, i - 1) = << "S","E","L","E","C","T"," " >>
           \/ /\ startswith(sql, << "S","E","L","E","C","T"," ","T","O","P"," " >>)
              /\ sql[i - 1] = " "
              /\ \A k \in 12..(i - 2) : sql[k] \in DigitSet \cup { "-" }

(***************************************************************************)
(* Properties.                                                             *)
(***************************************************************************)
\* C1: when a validation step rejects a call of execute_query or
\* query_builder (SELECT prefix, dangerous keyword, a builder field, the row
\* limit), no statement was sent to the driver during that call and nothing
\* was fetched.
C1_RejectionSendsNothing ==
    (pc = "returned" /\ Rejected) =>
        /\ driverLog = << >>
        /\ passed = None
        /\ fetch = NoFetch

\* C1 witness: a limit over the ceiling is rejected while the connection is
\* open and the query itself is acceptable
C1_Witness ==
    /\ Returned("execute_query")
    /\ conn = "open"
    /\ outcome.kind = "InvalidParameterError"
    /\ call.query \in QueryCorpus

\* C2: with a non-empty authorized list and a working driver, a query that
\* passes the classifier and names, after FROM or JOIN, an owner outside the
\* authorized list is rejected as UNAUTHORIZED_OWNER and is not sent to the
\* driver.
C2_UnauthorizedOwnerRejected ==
    ( /\ Returned("execute_query")
      /\ cm # None
      /\ Len(cm[1].authorized_users) > 0
      /\ call.drv = NominalDriver
      /\ outcome.kind # "QueryValidationError"
      /\ unauthorized_owners(call.query, cm[1].authorized_users) # {} ) =>
        /\ outcome.reason = "UNAUTHORIZED_OWNER"
        /\ driverLog = << >>

\* C3: every query containing a denylisted word as a whole word, in any
\* letter case, is rejected with a QueryValidationError and is never sent to
\* the driver; for a query that begins with SELECT the error is the
\* dangerous-keyword error (the SELECT-prefix check comes first).
C3_DeniedWordNeverAccepted ==
    (Returned("execute_query") /\ ContainsDeniedWord(call.query)) =>
        /\ outcome.kind = "QueryValidationError"
        /\ driverLog = << >>
        /\ BeginsWithSelect(call.query) => outcome.reason = "DANGEROUS_KEYWORD"

\* C4: execute_query rejects a query as NOT_A_SELECT exactly when the query,
\* after its leading whitespace, does not begin with SELECT in some letter case.
C4_NotASelectIffNoSelectPrefix ==
    Returned("execute_query") =>
        ((outcome.kind = "QueryValidationError" /\ outcome.reason = "NOT_A_SELECT")
            <=> ~BeginsWithSelect(call.query))

\* C4 witness: a lower-case select after a space passes the check
C4_Witness ==
    /\ Returned("execute_query")
    /\ call.query = << " " >> \o << "s","e","l","e","c","t" >> \o << " ","*"," ","F","R","O","M"," ","e","v","i","l",".","t" >>
    /\ outcome.kind = "ok"

\* C5: a string that query_builder builds from an accepted spec, whose table
\* name is owner.table, is never rejected by the classifier of execute_query.
C5_BuiltQueryPassesClassifier ==
    ( /\ Returned("query_builder")
      /\ Cardinality({ i \in 1..Len(call.table_name) : call.table_name[i] = "." }) = 1 ) =>
        outcome.kind # "QueryValidationError"

\* C6: with an effective limit L >= 1 and N rows available, at most L+1 rows
\* are asked of the cursor, the rows returned are the first min(N, L) rows in
\* the driver's order, has_more is true exactly when N > L, and row_count is
\* the number of rows returned.
C6_TruncationProbe ==
    ( /\ pc = "returned"
      /\ outcome.kind = "ok"
      /\ passed # None
      /\ passed[1] >= 1 ) =>
        LET L == passed[1]
            N == result_set(Sent, call.drv.avail)
        IN  /\ fetch.size # None
            /\ fetch.size[1] >= 0
            /\ fetch.size[1] <= L + 1
            /\ fetch.fetched <= L + 1
            /\ outcome.rows = [ i \in 1..Min(N, L) |-> i ]
            /\ outcome.has_more <=> (N > L)
            /\ outcome.row_count = Min(N, L)

\* C6 witness: more rows than the limit: truncated
C6_Witness ==
    /\ pc = "returned"
    /\ outcome.kind = "ok"
    /\ passed = Some(1)
    /\ call.drv.avail = 3
    /\ outcome.has_more
    /\ outcome.rows = << 1 >>

\* C7: in execute_query, without a requested limit the max_rows handed to
\* the round trip is the configured default; a requested limit over the
\* configured ceiling is rejected as an invalid limit and nothing is sent; a
\* requested limit at or below the ceiling is handed on unchanged.
C7_LimitResolution ==
    (Returned("execute_query") /\ ReachedLimitCheck) =>
        IF call.limit = None
        THEN /\ outcome.kind # "InvalidParameterError"
             /\ passed = Some(env.max_rows)
        ELSE IF call.limit[1] > env.max_rows_limit
        THEN /\ outcome.kind = "InvalidParameterError"
             /\ outcome.reason = "limit"
             /\ driverLog = << >>
             /\ passed = None
        ELSE /\ outcome.kind # "InvalidParameterError"
             /\ passed = call.limit

\* C7 witness: a limit equal to the ceiling is used as it is
C7_Witness ==
    /\ Returned("execute_query")
    /\ call.limit = Some(env.max_rows_limit)
    /\ env.max_rows_limit > env.max_rows
    /\ outcome.kind = "ok"
    /\ passed = call.limit

\* C8: every manager that was constructed has 0 < default limit <= ceiling,
\* and the max_rows a call of execute_query uses never exceeds the ceiling.
C8_RowLimitConfigValid ==
    (cm # None /\ Returned("execute_query") /\ outcome.kind = "ok") =>
        /\ 0 < cm[1].max_rows
        /\ cm[1].max_rows <= cm[1].max_rows_limit
        /\ passed # None => passed[1] <= cm[1].max_rows_limit

\* C9: the authorized-owner list of a constructed manager is never empty.
C9_AuthorizedOwnersNonEmpty ==
    cm # None => Len(cm[1].authorized_users) > 0

\* C10: query_builder, called with a table name without a '.' and otherwise
\* default arguments, rejects the call at the table-name check and sends
\* nothing to the driver.
C10_MissingOwnerPrefixRejected ==
    ( /\ Returned("query_builder")
      /\ \A i \in 1..Len(call.table_name) : call.table_name[i] # "."
      /\ call.columns = << "*" >>
      /\ call.where = None
      /\ call.order_by = None ) =>
        /\ outcome.kind = "InvalidParameterError"
        /\ outcome.reason = "table_name"
        /\ driverLog = << >>

\* C11: in query_builder with an acceptable table name and columns other
\* than '*', the columns are split on commas and trimmed; if a token is not a
\* simple identifier the call fails with the columns error naming the first
\* such token and nothing is sent to the driver; otherwise the columns check
\* passes and the statement handed to execution selects the columns as the
\* caller wrote them, in the caller's order.
C11_ColumnValidation ==
    ( /\ Returned("query_builder")
      /\ outcome.reason # "table_name"
      /\ call.columns # << "*" >> ) =>
        LET toks == TrimmedTokens(call.columns)
            bad  == { i \in 1..Len(toks) : ~SimpleIdentifier(toks[i]) }
        IN  IF bad # {}
            THEN /\ outcome.kind = "InvalidParameterError"
                 /\ outcome.reason = "columns"
                 /\ outcome.named = toks[CHOOSE i \in bad : \A j \in bad : i <= j]
                 /\ driverLog = << >>
            ELSE /\ outcome.reason # "columns"
                 /\ Executed => SelectsColumns(Sent, call.columns)

\* C11 witness: two tokens fail; the first in list order is the one named
C11_Witness ==
    /\ Returned("query_builder")
    /\ call.columns = << "1","a",",","b"," ","c" >>
    /\ outcome.reason = "columns"
    /\ outcome.named = << "1","a" >>
    /\ driverLog = << >>

\* C11 second case reached: valid tokens around whitespace are executed in order
C11_AcceptedReached ==
    /\ Returned("query_builder")
    /\ call.columns = << "N","a","m","e"," ",","," ","I","d" >>
    /\ Executed
    /\ Sent = << "S","E","L","E","C","T"," ","T","O","P"," ","1"," ","N","a","m","e"," ",","," ","I","d"," ","F","R","O","M"," ","d","b","o",".","t" >>

\* the text contains ';', '--', '/*' or '*/'
HasSeparatorOrComment(w) ==
    \E i \in 1..Len(w) :
        \/ w[i] = ";"
        \/ OccursAt(w, << "-","-" >>, i)
        \/ OccursAt(w, << "/","*" >>, i)
        \/ OccursAt(w, << "*","/" >>, i)

\* C12: a call of query_builder whose non-empty WHERE fragment contains ';',
\* '--', '/*' or '*/' is rejected with a parameter error (the where error,
\* unless an earlier field was already rejected) and nothing is sent to the
\* driver; a non-empty fragment with none of the four is not rejected by the
\* where check and, when the call reaches execution, stands verbatim after
\* ' WHERE ', right after the table name.
C12_WhereValidation ==
    ( /\ Returned("query_builder")
      /\ call.where # None
      /\ Len(call.where[1]) > 0 ) =>
        IF HasSeparatorOrComment(call.where[1])
        THEN /\ outcome.kind = "InvalidParameterError"
             /\ outcome.reason \in { "table_name", "columns", "limit", "where" }
             /\ (call.table_name = << "d","b","o",".","t" >> /\ call.columns = << "*" >>
                    /\ call.limit \in { None, Some(1) }) => outcome.reason = "where"
             /\ driverLog = << >>
        ELSE /\ outcome.reason # "where"
             /\ Executed =>
                    \E i \in 1..Len(Sent) :
                        LET clause == << " ","F","R","O","M"," " >> \o call.table_name \o << " ","W","H","E","R","E"," " >> \o call.where[1]
                            rest   == SubSeq(Sent, i + Len(clause), Len(Sent))
                        IN  /\ OccursAt(Sent, clause, i)
                            /\ rest = << >> \/ startswith(rest, << " ","O","R","D","E","R"," ","B","Y"," " >>)

\* C12 witness: a closing comment marker at the end of the fragment is rejected
C12_Witness ==
    /\ Returned("query_builder")
    /\ call.where = Some(<< "x","*","/" >>)
    /\ outcome.kind = "InvalidParameterError"
    /\ outcome.reason = "where"
    /\ driverLog = << >>

\* C12 second case reached: single '-', '/', '*' are accepted and sent verbatim
C12_AcceptedReached ==
    /\ Returned("query_builder")
    /\ call.where = Some(<< "a"," ","-"," ","b"," ","/"," ","c"," ","*"," ","d" >>)
    /\ call.order_by = Some(<< "I","d" >>)
    /\ Executed
    /\ Sent = << "S","E","L","E","C","T"," ","*"," ","F","R","O","M"," ","d","b","o",".","t"," ","W","H","E","R","E"," ","a"," ","-"," ","b"," ","/"," ","c"," ","*"," ","d"," ","O","R","D","E","R"," ","B","Y"," ","I","d" >>

\* ASC or DESC in any letter case
IsDirection(d) ==
    \/ Len(d) = 3 /\ \A k \in 1..3 : SameLetter(d[k], << "A","S","C" >>[k])
    \/ Len(d) = 4 /\ \A k \in 1..4 : SameLetter(d[k], << "D","E","S","C" >>[k])

\* a simple identifier, optionally followed by whitespace and a direction
IsOrderItem(x) ==
    \/ SimpleIdentifier(x)
    \/ \E i \in 1..Len(x) : \E j \in (i + 1)..Len(x) :
           /\ SimpleIdentifier(SubSeq(x, 1, i))
           /\ \A k \in (i + 1)..j : x[k] \in SpaceSet
           /\ IsDirection(SubSeq(x, j + 1, Len(x)))

\* the text without its leading whitespace
DropLeadingSpace(x) ==
    LET keep == { i \in 1..Len(x) : x[i] \notin SpaceSet }
    IN  IF keep = {} THEN << >>
        ELSE SubSeq(x, CHOOSE i \in keep : \A j \in keep : i <= j, Len(x))

\* the whole text is a comma-separated list of order items (whitespace may
\* follow a comma)
IsOrderList(s) ==
    LET segs == split(s, ",")
    IN  /\ IsOrderItem(segs[1])
        /\ \A k \in 2..Len(segs) : IsOrderItem(DropLeadingSpace(segs[k]))

\* C13: when the earlier fields pass, query_builder accepts a non-empty
\* order_by exactly when the whole value is a comma-separated list of simple
\* identifiers, each optionally followed by ASC or DESC in any letter case;
\* a rejected order_by sends nothing to the driver.
C13_OrderByAcceptedIffList ==
    ( /\ Returned("query_builder")
      /\ call.order_by # None
      /\ Len(call.order_by[1]) > 0
      /\ outcome.reason \notin { "table_name", "columns", "limit", "where" } ) =>
        /\ (outcome.reason # "order_by") <=> IsOrderList(call.order_by[1])
        /\ outcome.reason = "order_by" =>
               (outcome.kind = "InvalidParameterError" /\ driverLog = << >>)

\* C14: when the other fields pass and the classifier and the manager raise
\* nothing, a call of query_builder with a limit L >= 1 is rejected with the
\* limit error exactly when L exceeds the configured ceiling, and an accepted
\* L stands unchanged in the TOP clause of the statement handed to execution.
C14_BuilderLimitAgainstCeiling ==
    ( /\ Returned("query_builder")
      /\ call.limit # None
      /\ call.limit[1] >= 1
      /\ outcome.kind \notin { "QueryValidationError", "ValueError" }
      /\ outcome.reason \notin { "table_name", "columns", "where", "order_by" } ) =>
        /\ (outcome.kind = "InvalidParameterError" /\ outcome.reason = "limit")
              <=> (call.limit[1] > env.max_rows_limit)
        /\ Executed => startswith(Sent, << "S","E","L","E","C","T"," ","T","O","P"," " >> \o NatToStr(call.limit[1]) \o << " " >>)

\* the fixed shape SELECT [TOP limit] columns FROM tableName [WHERE where]
\* [ORDER BY orderBy] for the fields of call c; an empty where or order_by
\* text counts as not supplied
ShapeOf(c) ==
    << "S","E","L","E","C","T"," " >>
    \o (IF c.limit # None THEN << "T","O","P"," " >> \o IntToStr(c.limit[1]) \o << " " >> ELSE << >>)
    \o c.columns \o << " ","F","R","O","M"," " >> \o c.table_name
    \o (IF c.where # None /\ c.where[1] # << >> THEN << " ","W","H","E","R","E"," " >> \o c.where[1] ELSE << >>)
    \o (IF c.order_by # None /\ c.order_by[1] # << >> THEN << " ","O","R","D","E","R"," ","B","Y"," " >> \o c.order_by[1] ELSE << >>)

\* C15: whenever a call of query_builder hands a statement to execution, the
\* statement is exactly SELECT [TOP limit] columns FROM tableName
\* [WHERE where] [ORDER BY orderBy], each optional part present exactly when
\* its field was supplied, in that order.
C15_BuiltShape ==
    (Returned("query_builder") /\ Executed) => Sent = ShapeOf(call)

\* the documented example: 'monitor.Part', 'Id,PartNumber', limit 10
C15_ExampleReached ==
    /\ Returned("query_builder")
    /\ call.table_name = << "m","o","n","i","t","o","r",".","P","a","r","t" >>
    /\ Executed
    /\ Sent = << "S","E","L","E","C","T"," ","T","O","P"," ","1","0"," ","I","d",",","P","a","r","t","N","u","m","b","e","r"," ","F","R","O","M"," ","m","o","n","i","t","o","r",".","P","a","r","t" >>

\* C16: during a call of execute_query at most one statement is sent to the
\* driver, it is the caller's query, and it is sent only when no validation
\* step rejected the call; no other statement (such as a liveness probe) is
\* sent.
C16_SingleRoundTrip ==
    Returned("execute_query") =>
        /\ Len(driverLog) <= 1
        /\ \A i \in 1..Len(driverLog) : driverLog[i] = call.query
        /\ Rejected => driverLog = << >>

\* C16 as amended: the caller's query is sent at most once, as the last
\* statement of the call and only when no validation step rejected the call;
\* the only other statement is the liveness probe SELECT 1, sent once, before
\* the query, exactly when the manager held a connection when the call
\* reached the round trip.
C16_QueryOnceProbeWhenHeld ==
    Returned("execute_query") =>
        /\ (Rejected \/ outcome.kind = "ValueError") => driverLog = << >>
        /\ \A i \in 1..Len(driverLog) :
               IF driverLog[i] = call.query THEN i = Len(driverLog)
               ELSE i = 1 /\ driverLog[i] = ProbeStatement /\ call.held = "open"
        /\ Len(driverLog) <= 2
        /\ outcome.kind \in { "ok", "DatabaseError" } =>
               /\ driverLog # << >> \/ call.held = "none"
               /\ call.held = "open" => driverLog[1] = ProbeStatement
               /\ outcome.kind = "ok" => Sent = call.query

\* C16 witness: a query accepted while a connection is held: probe, then query
C16_Witness ==
    /\ Returned("execute_query")
    /\ call.held = "open"
    /\ outcome.kind = "ok"
    /\ driverLog = << ProbeStatement, call.query >>

\* C17: when the driver fails while executing the query of an execute_query
\* call, the query was submitted exactly once, and the call raises a
\* DatabaseError that carries the operation name 'query execution' and the
\* driver's error message, with no rows.
C17_DriverFailurePropagated ==
    ( /\ Returned("execute_query")
      /\ ~call.drv.execOk
      /\ \E i \in 1..Len(driverLog) : driverLog[i] = call.query ) =>
        /\ Cardinality({ i \in 1..Len(driverLog) : driverLog[i] = call.query }) = 1
        /\ outcome.kind = "DatabaseError"
        /\ outcome.reason = "query execution"
        /\ outcome.named = call.drv.error
        /\ outcome.rows = << >>
        /\ outcome.row_count = 0
        /\ ~outcome.has_more

\* C17 witness: the driver rejects the statement of an accepted query
C17_Witness ==
    /\ Returned("execute_query")
    /\ ~call.drv.execOk
    /\ call.drv.error = << "4","2","0","0","0"," ","S","y","n","t","a","x"," ","e","r","r","o","r" >>
    /\ driverLog = << call.query >>
    /\ outcome.kind = "DatabaseError"
    /\ outcome.named = << "4","2","0","0","0"," ","S","y","n","t","a","x"," ","e","r","r","o","r" >>

\* a step in which a call of validate_query runs and returns
ValidateQueryStep == pc = "idle" /\ pc' = "returned" /\ call'.op = "validate_query"

\* the verdict o for query q: a verdict is always returned; no dangerous
\* keyword is reported for a query without a denylisted word; a query that
\* begins with SELECT and is not reported for a dangerous keyword is reported
\* MISSING_FROM exactly when FROM does not occur in it as a whole word
VerdictAsClaimed(q, o) ==
    /\ o.kind = "verdict"
    /\ o.reason \in { "NOT_A_SELECT", "DANGEROUS_KEYWORD", "MISSING_FROM", "VALID" }
    /\ ~ContainsDeniedWord(q) => o.reason # "DANGEROUS_KEYWORD"
    /\ (BeginsWithSelect(q) /\ o.reason # "DANGEROUS_KEYWORD") =>
          /\ o.reason # "NOT_A_SELECT"
          /\ (o.reason = "MISSING_FROM") <=> ~OccursAsWord(q, << "F","R","O","M" >>)

\* C18: a call of validate_query leaves the manager singleton and the
\* connection as they were (it neither creates nor uses the manager), sends
\* nothing to the driver and fetches nothing, and returns a verdict; a query
\* that begins with SELECT and has no dangerous keyword is reported
\* MISSING_FROM exactly when it has no whole-word FROM in any letter case.
C18_ValidateOnly ==
    [][ ValidateQueryStep =>
          /\ cm' = cm
          /\ conn' = conn
          /\ driverLog' = << >>
          /\ passed' = None
          /\ fetch' = NoFetch
          /\ VerdictAsClaimed(call'.query, outcome') ]_vars

\* C18 witness: with a manager built and a connection open, FROM inside a
\* longer word does not count and the query is reported MISSING_FROM
C18_Witness ==
    /\ Returned("validate_query")
    /\ cm # None
    /\ conn = "open"
    /\ call.query = << "s","e","l","e","c","t","_","f","r","o","m" >>
    /\ outcome.reason = "MISSING_FROM"
    /\ driverLog = << >>

\* C19: every call of one of the three query tool handlers returns a
\* reported result: no exception leaves the handler.
C19_HandlersReport ==
    ( /\ pc = "returned"
      /\ call.op \in { "sqlanywhere_execute_query", "sqlanywhere_query_builder",
                       "sqlanywhere_validate_query" } ) =>
        outcome.kind = "reported"

\* a step in which a caller runs schema.get_table_details
GetTableDetailsStep == pc = "idle" /\ pc' = "returned" /\ call'.op = "get_table_details"

\* a table of the requested name exists, and every owner that has one is
\* outside the authorized users, in whatever letter case
OwnedOutside(users, cat) ==
    /\ cat.owners # {}
    /\ \A o \in cat.owners : \A i \in 1..Len(users) : lower(o) # lower(users[i])

\* C20: get_table_details gives the same outcome for a name that exists only
\* under owners outside the authorized users as for the same name when no
\* table has it: the same error type and message and the same statements
\* sent, and when the lookup ran without a driver error that outcome is
\* DatabaseNotFoundError for a table of that name.
C20_SameOutcomeAsMissing ==
    [][ ( /\ GetTableDetailsStep
          /\ OwnedOutside(parse_authorized_users(env), call'.cat) ) =>
          LET missing == get_table_details(cm, conn, env, call'.table_name, call'.drv,
                                           [ call'.cat EXCEPT !.owners = {} ])
          IN  /\ outcome' = missing.out
              /\ driverLog' = missing.log
              /\ connLog' = missing.events
              /\ cm' = missing.cm
              /\ conn' = missing.conn
              /\ (driverLog' # << >> /\ call'.drv.execOk) =>
                     outcome' = DatabaseNotFoundError("table", call'.table_name) ]_vars

\* C20 witness: the table Part exists under the owner evil alone, monitor
\* and ExtensionsUser are authorized, and the call ends in
\* DatabaseNotFoundError for Part after the lookup alone
C20_Witness ==
    /\ Returned("get_table_details")
    /\ call.cat = [ owners |-> { << "e","v","i","l" >> }, caseSensitive |-> FALSE ]
    /\ cm # None
    /\ cm[1].authorized_users = << << "m","o","n","i","t","o","r" >>, << "E","x","t","e","n","s","i","o","n","s","U","s","e","r" >> >>
    /\ call.table_name = << "P","a","r","t" >>
    /\ outcome = DatabaseNotFoundError("table", << "P","a","r","t" >>)
    /\ Len(driverLog) = 1

\* a full connection string is configured (set and not empty)
HasOverride == env.connection_string # None /\ env.connection_string[1] # << >>

\* the outcomes of a call that got a manager and went on to the connection
BeyondConstruction ==
    { "ok", "DatabaseError", "ConnectionError", "DatabaseNotFoundError", "pyodbc.Error",
      "connected" }

\* C21: with a full connection string configured, the manager uses it
\* verbatim and construction never fails, whatever the other settings; without
\* one and without a database name, every construction fails with the
\* ValueError, no manager exists, and no connection is attempted and no
\* statement sent; without one and with a database name, construction never
\* fails, the string is built from the settings, and the missing server name
\* only leaves ServerName out and raises the warning.
C21_ConnectionStringResolution ==
    /\ HasOverride =>
          /\ cm # None => cm[1].connection_string = env.connection_string[1]
          /\ outcome.kind # "ValueError" /\ outcome.reason # "ValueError"
    /\ (~HasOverride /\ env.database = << >>) =>
          /\ cm = None /\ conn = "none" /\ live = 0
          /\ connLog = << >> /\ driverLog = << >>
          /\ outcome.kind \notin BeyondConstruction
          /\ outcome.reason \notin BeyondConstruction
          /\ call.op \in { "connect", "disconnect", "reconnect", "get_connection",
                           "get_table_details" } => outcome.kind = "ValueError"
    /\ (~HasOverride /\ env.database # << >>) =>
          /\ outcome.kind # "ValueError" /\ outcome.reason # "ValueError"
          /\ build_connection_string(env).warned <=> env.server_name = << >>
          /\ cm # None =>
                /\ startswith(cm[1].connection_string,
                              << "D","R","I","V","E","R","=","{" >> \o env.driver \o << "}",";","D","B","N","=" >> \o env.database)
                /\ search_lit(<< ";","S","e","r","v","e","r","N","a","m","e","=" >>, cm[1].connection_string)
                       <=> env.server_name # << >>

\* C21 witness: no connection string and no database name are configured;
\* connect() on the manager fails with the ValueError before any connection
\* is attempted, although the driver would have connected
C21_Witness ==
    /\ Returned("connect")
    /\ ~HasOverride
    /\ env.database = << >>
    /\ call.drv.connectOk
    /\ outcome.kind = "ValueError"
    /\ outcome.named = NoDatabaseMessage
    /\ cm = None
    /\ connLog = << >>

\* a manager is built and connected without a server name
C21_BuiltWithoutServerName ==
    /\ env.server_name = << >>
    /\ cm # None
    /\ cm[1].connection_string = << "D","R","I","V","E","R","=","{","S","Q","L"," ","A","n","y","w","h","e","r","e"," ","1","7","}",";","D","B","N","=","d","b",";","U","I","D","=","u",";","P","W","D","=","p","w" >>
    /\ conn = "open"

\* C22: once the process-wide manager exists, every step leaves it the same
\* manager, and whenever it exists its authorized owners, default row limit
\* and row-limit ceiling are the ones read from the environment when it was
\* built, across queries, validations, catalog lookups, connect, disconnect,
\* reconnect and get_connection.
C22_ManagerFixed ==
    [][ /\ cm # None => cm' = cm
        /\ cm' # None =>
              /\ cm'[1].authorized_users = parse_authorized_users(env)
              /\ cm'[1].max_rows = env.max_rows
              /\ cm'[1].max_rows_limit = env.max_rows_limit ]_vars

\* C22 witness: the manager built from "DBO, monitor" is still the same after
\* a disconnect that closed the connection an earlier call had opened
C22_Witness ==
    /\ Returned("disconnect")
    /\ call.held = "open"
    /\ conn = "none"
    /\ cm # None
    /\ cm[1].authorized_users = << << "D","B","O" >>, << "m","o","n","i","t","o","r" >> >>
    /\ cm[1].max_rows = env.max_rows

\* C23: every query that validate_query reports as valid passes the
\* SELECT-prefix check and the dangerous-keyword check of execute_query.
C23_ValidImpliesClassifierAccepts ==
    (Returned("validate_query") /\ outcome.reason = "VALID") =>
        execute_query(cm, conn, env, call.query, None, NominalDriver).out.kind
            # "QueryValidationError"

\* the caller's limit is over the configured ceiling
OverCeiling == call.limit # None /\ call.limit[1] > env.max_rows_limit

\* C24: execute_query reports the earliest failing check in the order
\* SELECT prefix, dangerous keywords, row limit, execution: a query that does
\* not start with SELECT is NOT_A_SELECT whatever else is wrong with it; one
\* that does and has a dangerous keyword is DANGEROUS_KEYWORD whatever the
\* limit; the limit error is raised only for a query that passed both, and
\* then nothing is sent; and a statement reaches the driver only when all
\* three checks passed.
C24_ChecksInOrder ==
    Returned("execute_query") =>
        LET select   == is_select(call.query)
            keywords == matching_patterns(clean(call.query)) # {}
        IN  /\ ~select => outcome.reason = "NOT_A_SELECT"
            /\ (select /\ keywords) => outcome.reason = "DANGEROUS_KEYWORD"
            /\ (select /\ ~keywords /\ OverCeiling /\ cm # None) =>
                   /\ outcome.kind = "InvalidParameterError"
                   /\ outcome.reason = "limit"
            /\ (outcome.kind = "InvalidParameterError") => (select /\ ~keywords /\ OverCeiling)
            /\ (driverLog # << >> \/ connLog # << >>) =>
                   (select /\ ~keywords /\ ~OverCeiling)

\* C24 witness: a statement that is no SELECT, names DROP and comes with a
\* limit over the ceiling is reported as NOT_A_SELECT
C24_Witness ==
    /\ Returned("execute_query")
    /\ call.query = << "D","R","O","P"," ","T","A","B","L","E"," ","t" >>
    /\ OverCeiling
    /\ outcome.kind = "QueryValidationError"
    /\ outcome.reason = "NOT_A_SELECT"
    /\ driverLog = << >>

\* a SELECT with a dangerous keyword and a limit over the ceiling is
\* reported for the keyword
C24_KeywordBeforeLimit ==
    /\ Returned("execute_query")
    /\ call.query = << "s","e","l","e","c","t"," ","1",";"," ","d","r","o","p"," ","t","a","b","l","e"," ","t" >>
    /\ OverCeiling
    /\ outcome.reason = "DANGEROUS_KEYWORD"

\* the number of owner separators in a table name
Separators(name) == Cardinality({ i \in 1..Len(name) : name[i] = "." })

\* C25: a table name that passed QueryBuilderInput and that the table-name
\* check of query_builder accepts has exactly one '.', with a simple
\* identifier on each side of it.
C25_AcceptedTableNames ==
    (Returned("sqlanywhere_query_builder") /\ match_table_name(call.table_name)) =>
        /\ Separators(call.table_name) = 1
        /\ \E i \in 1..Len(call.table_name) :
               /\ call.table_name[i] = "."
               /\ SimpleIdentifier(SubSeq(call.table_name, 1, i - 1))
               /\ SimpleIdentifier(SubSeq(call.table_name, i + 1, Len(call.table_name)))

\* C25 witness: the host sends 'dbo.t' followed by a newline; the input
\* model strips it and the name handed to the handler is dbo.t, which the
\* table-name check accepts
C25_Witness ==
    /\ Returned("sqlanywhere_query_builder")
    /\ call.raw = << "d","b","o",".","t","\n" >>
    /\ call.table_name = << "d","b","o",".","t" >>
    /\ match_table_name(call.table_name)

\* names without a separator and names with two are stopped
C25_RejectedReached ==
    /\ Returned("QueryBuilderInput")
    /\ call.raw = << "P","a","r","t" >>
    /\ outcome.kind = "ValidationError"

\* the denylist of the specification, in its fixed order
DeniedWordOrder ==
    << << "D","R","O","P" >>, << "D","E","L","E","T","E" >>, << "I","N","S","E","R","T" >>, << "U","P","D","A","T","E" >>, << "C","R","E","A","T","E" >>, << "A","L","T","E","R" >>, << "T","R","U","N","C","A","T","E" >>,
       << "G","R","A","N","T" >>, << "R","E","V","O","K","E" >>, << "E","X","E","C" >>, << "E","X","E","C","U","T","E" >> >>

\* C26: when execute_query rejects a query for a dangerous keyword, the
\* keyword named is on the denylist and occurs in the query as a whole word,
\* and no keyword earlier in the denylist order occurs in the query as a
\* whole word, wherever the keywords stand in the query.
C26_NamesEarliestOccurringKeyword ==
    (Returned("execute_query") /\ outcome.reason = "DANGEROUS_KEYWORD") =>
        \E k \in 1..Len(DeniedWordOrder) :
            /\ outcome.named = DeniedWordOrder[k]
            /\ OccursAsWord(call.query, DeniedWordOrder[k])
            /\ \A j \in 1..(k - 1) : ~OccursAsWord(call.query, DeniedWordOrder[j])

\* C27: when execute_query or query_builder runs a query with an explicit
\* limit L, also 0 or negative, the cursor is asked for a bounded number of
\* rows, at most L + 1 rows are fetched, and at most max(L, 0) rows are
\* returned.
C27_ExplicitLimitBoundsFetch ==
    ( /\ pc = "returned"
      /\ call.op \in { "execute_query", "query_builder" }
      /\ call.limit # None
      /\ outcome.kind = "ok" ) =>
        LET L == call.limit[1]
        IN  /\ fetch.size # None
            /\ fetch.size[1] >= 0
            /\ fetch.fetched <= L + 1
            /\ outcome.row_count <= (IF L > 0 THEN L ELSE 0)

OpenBefore(i) ==
    (IF call.held = "open" THEN 1 ELSE 0)
    + Count(SubSeq(connLog, 1, i - 1), "connect")
    - Count(SubSeq(connLog, 1, i - 1), "close")

\* C29: the driver never has more than one connection of the manager open,
\* and it has one exactly when the manager holds one; connect on a manager that
\* holds a connection opens nothing and keeps it; a connection is opened
\* only when none is open (a held one is closed first); after a failed
\* connect the manager holds none and the next connect tries again; and
\* when get_connection returns normally the manager holds an open connection.
C29_OneConnection ==
    /\ live <= 1
    /\ conn = "open" <=> live = 1
    /\ pc = "returned" =>
          /\ \A i \in 1..Len(connLog) :
                /\ connLog[i] \in { "connect", "connect failed" } => OpenBefore(i) = 0
                /\ connLog[i] = "close" => OpenBefore(i) = 1
          /\ (Len(connLog) > 0 /\ connLog[Len(connLog)] = "connect failed") => conn = "none"
          /\ (call.op = "connect" /\ call.held = "open") =>
                (connLog = << >> /\ conn = "open" /\ outcome.kind = "ok")
          /\ (call.op = "connect" /\ call.held = "none" /\ cm # None) =>
                connLog \in { << "connect" >>, << "connect failed" >> }
          /\ (call.op = "get_connection" /\ outcome.kind = "ok") => conn = "open"

\* C29 witness: get_connection finds the held connection dead, closes it,
\* opens a new one and returns holding exactly that one
C29_Witness ==
    /\ Returned("get_connection")
    /\ call.held = "open"
    /\ ~call.drv.probeOk
    /\ connLog = << "close", "connect" >>
    /\ outcome.kind = "ok"
    /\ conn = "open"
    /\ live = 1

\* a reconnect closes the held connection and then fails to open a new one
C29_FailedReconnect ==
    /\ Returned("reconnect")
    /\ connLog = << "close", "connect failed" >>
    /\ outcome.kind = "ConnectionError"
    /\ conn = "none"
    /\ live = 0

\* values of SQLANYWHERE_PASSWORD
Passwords == { << "p","w" >>, << "s","3" >>, << >> }

\* C30: when sqlanywhere_connect reports that connecting failed, the text it
\* returns is the text it would return in a process configured with any
\* other password and otherwise the same settings, driver and connection.
C30_FailureTextIgnoresPassword ==
    ( /\ Returned("sqlanywhere_connect")
      /\ outcome.reason = "ConnectionError" ) =>
        \A pw \in Passwords :
            outcome = sqlanywhere_connect(None, call.held,
                                          [ env EXCEPT !.password = pw ], call.drv).out

=============================================================================
